---- MODULE Spec2Model ----
(***************************************************************************)
(* A TLA+ model of the flight-search aggregation service.                  *)
(*                                                                         *)
(*   SpecAgg   MultiProviderAggregator.search over its provider list: the  *)
(*             asyncio.gather fan-out, the provider tasks (rate-limit      *)
(*             wait, HTTP request, retry backoff, poll sleep), failure and *)
(*             cancellation, and the merge / deduplicate / sort pass.      *)
(*   SpecDeco  CacheDecorator.search over the shared InMemoryCache.        *)
(*   SpecCache InMemoryCache's operations.                                 *)
(*   SpecLimiter  RateLimiter under concurrent callers.                    *)
(*   SpecLimiterFair  the same, the event loop and the clock going on.    *)
(*   SpecHttp  AsyncHTTPClient._request_with_retry.                        *)
(*   SpecPoll  SkyscannerProvider.search: create_session, poll_results.    *)
(*   SpecProvider  concurrent searches on one provider's rate limiter.     *)
(*   SpecUseCase  SearchFlightsUseCase.execute.                            *)
(*   SpecRegistry  ProviderRegistry.                                       *)
(*   SpecFlight  construction of the Flight entity.                        *)
(*                                                                         *)
(* Times of day are whole minutes, prices are whole cents, the clock of    *)
(* the cache is whole seconds.                                             *)
(***************************************************************************)
EXTENDS Integers, Sequences, FiniteSets, TLC

VARIABLES
    \* ---- aggregator (SpecAgg) ----
    providers,      \* MultiProviderAggregator._providers: indices into AllProviders
    aggPc,          \* position of MultiProviderAggregator.search
    gatherSt,       \* the future returned by asyncio.gather
    taskSt,         \* per provider: state of its search task
    taskAt,         \* per provider: the await its search is suspended in
    taskCancel,     \* per provider: a CancelledError is pending for the task
    taskOut,        \* per provider: what its search returned or raised
    aggResult,      \* what MultiProviderAggregator.search returned or raised
    mustCancel,     \* Task._must_cancel of the task running the aggregator
    cancelRequested,\* the caller cancelled the search while it was in progress
    inFlightAtCancel,\* history: provider calls in flight when the cancel came
    completionOrder,\* history: provider indices in the order their calls ended
    \* ---- cache decorator (SpecDeco) ----
    cache,          \* InMemoryCache._cache: entries in LRU order, oldest first
    hits,           \* InMemoryCache._hits
    misses,         \* InMemoryCache._misses
    now,            \* datetime.now(), seconds
    cacheLock,      \* InMemoryCache._lock: "free" or the task holding it
    maxSize,        \* InMemoryCache._max_size
    ttlSeconds,     \* CacheDecorator._ttl_seconds
    dTask,          \* per search task: its CacheDecorator.search call
    providerCalls,  \* per provider: calls of the wrapped provider's search
    lastEnded,      \* history: the search whose return was the last event
    \* ---- cache operations (SpecCache) ----
    lastOp,         \* the last InMemoryCache operation and what it returned
    accessOrder,    \* history: keys by their latest successful get or set
    onlySets,       \* history: no operation other than set has been called
    zeroTtlKeys,    \* history: keys whose present entry was stored with ttl 0
    \* ---- rate limiter (SpecLimiter) ----
    rate,           \* RateLimiter.rate
    per,            \* RateLimiter.per, seconds
    allowance,      \* RateLimiter._allowance, in units of 1/per token
    last_check,     \* RateLimiter._last_check
    limLock,        \* RateLimiter._lock: 0 or the caller holding it
    lockQueue,      \* RateLimiter._lock._waiters, first in first out
    lpc,            \* per caller: where its call stands
    lret,           \* per caller: what its call returned
    wakeAt,         \* when the asyncio.sleep of the acquire in progress is due
    grants,         \* history: times at which acquire returned or try_acquire returned true
    resetCalled,    \* history: reset has been called
    tryTrue,        \* history: try_acquire calls that returned true in the present burst
    tryFalse,       \* history: try_acquire calls that returned false in the present burst
    burstTokens,    \* history: whole tokens held when the present burst began, -1 if none
    \* ---- HTTP client (SpecHttp) ----
    max_retries,    \* RetryConfig.max_retries
    method,         \* "GET" or "POST"
    hpc,            \* where _request_with_retry stands
    attempt,        \* the loop variable of _request_with_retry
    last_exception, \* the local of that name
    hresult,        \* what the call returned or raised
    hlog,           \* history: what each attempt ended with
    waits,          \* history: the asyncio.sleep calls made, in seconds
    \* ---- two-phase provider (SpecPoll) ----
    ppc,            \* where the provider's search stands
    pollAttempt,    \* the loop variable of poll_results
    pollLog,        \* history: what each poll GET ended with
    pollSleeps,     \* history: the asyncio.sleep calls of poll_results, in seconds
    pollResult,     \* what poll_results returned or raised
    pSearch,        \* what the provider's search returned
    \* ---- provider behind its rate limiter (SpecProvider) ----
    searchEnded,    \* callers whose _perform_search has ended
    \* ---- use case (SpecUseCase) ----
    max_search_results, \* Settings.max_search_results
    ucProviders,    \* the aggregator's _providers, by name
    ucProviderResult,   \* what self._provider.search returned
    ucResult,       \* what SearchFlightsUseCase.execute returned
    \* ---- provider registry (SpecRegistry) ----
    registry,       \* ProviderRegistry._providers, in insertion order
    lastCall,       \* history: the last call made on the registry
    \* ---- Flight entity (SpecFlight) ----
    newFlight       \* what the last Flight(...) construction gave

aggVars == <<providers, aggPc, gatherSt, taskSt, taskAt, taskCancel, taskOut,
             aggResult, mustCancel, cancelRequested, inFlightAtCancel,
             completionOrder>>
decoVars == <<cache, hits, misses, now, cacheLock, maxSize, ttlSeconds,
              dTask, providerCalls, lastEnded>>
cacheOpVars == <<lastOp, accessOrder, onlySets, zeroTtlKeys>>
limVars == <<rate, per, allowance, last_check, limLock, lockQueue, lpc, lret,
             wakeAt, grants, resetCalled, tryTrue, tryFalse, burstTokens>>
httpVars == <<max_retries, method, hpc, attempt, last_exception, hresult, hlog,
              waits>>
pollVars == <<ppc, pollAttempt, pollLog, pollSleeps, pollResult, pSearch>>
provVars == <<searchEnded>>
ucVars == <<max_search_results, ucProviders, ucProviderResult, ucResult>>
regVars == <<registry, lastCall>>
flightVars == <<newFlight>>
moreVars == <<pollVars, provVars, ucVars, regVars, flightVars>>
restVars == <<cacheOpVars, limVars, httpVars, moreVars>>
vars == <<aggVars, decoVars, restVars>>

----------------------------------------------------------------------------
(* Bounds of the model.                                                    *)

\* longest flight list one provider returns
MaxLen == 2
\* number of CacheDecorator.search calls in one behaviour
MaxSearches == 2
\* the clock stops here
MaxTime == 1
\* number of InMemoryCache.get calls in one behaviour
MaxGets == 2
\* number of callers of one RateLimiter, each making one call
MaxCallers == 4
\* the rate limiter's clock stops here
MaxClock == 3
\* largest RetryConfig.max_retries
MaxRetries == 4
\* longest flight list the use case's provider returns
MaxFlights == 12
\* largest Settings.max_search_results
MaxResultsCap == 11
\* latest departure of a constructed Flight, in half minutes
MaxDeparture == 6

----------------------------------------------------------------------------
(* Flights.                                                                *)

Abs(x) == IF x < 0 THEN 0 - x ELSE x

Flight(id, dst, al, dep, arr, price) ==
    [id |-> id, origin |-> "JFK", destination |-> dst, airline |-> al,
     departure_time |-> dep, arrival_time |-> arr, price |-> price]

AllProviders == <<"skyscanner", "google_flights", "kiwi">>

ProviderIdx == 1..Len(AllProviders)

\* What each back-end has on offer. Ids are namespaced by provider.
Pool(i) ==
    CASE i = 1 -> { Flight("skyscanner_1", "LAX", "AA", 600, 930, 30000),
                    Flight("skyscanner_2", "LAX", "AA", 625, 955, 33000),
                    Flight("skyscanner_3", "LAX", "DL", 600, 930, 30000) }
      [] i = 2 -> { Flight("google_flights_1", "LAX", "AA", 605, 935, 30200),
                    Flight("google_flights_2", "LAX", "AA", 635, 965, 30000),
                    Flight("google_flights_3", "LAX", "AA", 600, 930, 40000) }
      [] OTHER -> { Flight("kiwi_1", "LAX", "AA", 655, 985, 31600),
                    Flight("kiwi_2", "LAX", "AA", 600, 930, 30000),
                    Flight("kiwi_3", "SFO", "AA", 600, 930, 30000) }

AllFlightRecords == UNION { Pool(i) : i \in ProviderIdx }

\* Lists without repetition over a set, up to MaxLen long.
RECURSIVE ListsOver(_, _)
ListsOver(S, n) ==
    IF n = 0 THEN { <<>> }
    ELSE LET shorter == ListsOver(S, n - 1) IN
         shorter \cup { Append(l, x) : l \in { s \in shorter : Len(s) = n - 1 },
                                       x \in S }

NoRepeat(l) == \A a, b \in 1..Len(l) : a # b => l[a] # l[b]

FlightLists(i) == { l \in ListsOver(Pool(i), MaxLen) : NoRepeat(l) }

----------------------------------------------------------------------------
(* Result values.                                                          *)

Ok(v) == [kind |-> "Ok", value |-> v, error |-> "none"]
Err(e) == [kind |-> "Err", value |-> <<>>, error |-> e]
Raised(e) == [kind |-> "Raised", value |-> <<>>, error |-> e]
NoResult == [kind |-> "None", value |-> <<>>, error |-> "none"]

----------------------------------------------------------------------------
(* MultiProviderAggregator: deduplication and ranking.                     *)

TimeThreshold == 30

GenerateSignature(flight) ==
    << flight.origin, flight.destination, flight.airline,
       (flight.departure_time \div 30) * 30,
       (flight.arrival_time \div 30) * 30 >>

\* price_diff > avg_price * 0.05 with avg_price = (p1 + p2) / 2, in exact
\* decimal arithmetic: 40 * price_diff > p1 + p2.
AreSimilar(f1, f2) ==
    /\ f1.origin = f2.origin
    /\ f1.destination = f2.destination
    /\ f1.airline = f2.airline
    /\ ~ (Abs(f1.departure_time - f2.departure_time) > TimeThreshold)
    /\ ~ (Abs(f1.arrival_time - f2.arrival_time) > TimeThreshold)
    /\ ~ (40 * Abs(f1.price - f2.price) > f1.price + f2.price)

IsDuplicate(flight, existing) ==
    \E k \in 1..Len(existing) : AreSimilar(flight, existing[k])

RECURSIVE DedupLoop(_, _, _, _)
DedupLoop(flights, k, unique, seen) ==
    IF k > Len(flights) THEN unique
    ELSE LET flight == flights[k]
             signature == GenerateSignature(flight)
         IN  IF signature \in seen /\ IsDuplicate(flight, unique)
             THEN DedupLoop(flights, k + 1, unique, seen)
             ELSE DedupLoop(flights, k + 1, Append(unique, flight),
                            seen \cup {signature})

Deduplicate(flights) ==
    IF Len(flights) <= 1 THEN flights
    ELSE DedupLoop(flights, 1, <<>>, {})

\* list.sort(key=price.amount): a stable sort. Insert x after the last
\* element whose key is not greater.
RECURSIVE InsertStable(_, _)
InsertStable(sorted, x) ==
    IF sorted = <<>> THEN <<x>>
    ELSE IF sorted[Len(sorted)].price <= x.price THEN Append(sorted, x)
    ELSE Append(InsertStable(SubSeq(sorted, 1, Len(sorted) - 1), x),
                sorted[Len(sorted)])

\* A sort that is not stable: x goes before the elements of equal key.
RECURSIVE InsertBeforeEqual(_, _)
InsertBeforeEqual(sorted, x) ==
    IF sorted = <<>> THEN <<x>>
    ELSE IF sorted[Len(sorted)].price < x.price THEN Append(sorted, x)
    ELSE Append(InsertBeforeEqual(SubSeq(sorted, 1, Len(sorted) - 1), x),
                sorted[Len(sorted)])

RECURSIVE SortWith(_, _, _)
SortWith(stable, flights, k) ==
    IF k = 0 THEN <<>>
    ELSE IF stable THEN InsertStable(SortWith(stable, flights, k - 1), flights[k])
    ELSE InsertBeforeEqual(SortWith(stable, flights, k - 1), flights[k])

SortByPriceUnstable(flights) == SortWith(FALSE, flights, Len(flights))

SortByPrice(flights) == SortWith(TRUE, flights, Len(flights))

----------------------------------------------------------------------------
(* BaseFlightProvider.search: what one provider call ends with.            *)

ProviderErr(code, provider, message, failed) ==
    [code |-> code, provider |-> provider, message |-> message, failed |-> failed]

\* What _perform_search (or the await it is suspended in) ends with: a
\* flight list, or an exception.
Return(flights) == [kind |-> "return", flights |-> flights, exc |-> "none",
                    status |-> 0, retry_after |-> "none"]
Raise(exc, status, retry_after) ==
    [kind |-> "raise", flights |-> <<>>, exc |-> exc,
     status |-> status, retry_after |-> retry_after]

CancelledError == Raise("CancelledError", 0, "none")

RawExceptions ==
    { Raise("TimeoutException", 0, "none"),
      Raise("HTTPStatusError", 500, "none"),
      \* Retry-After may be an HTTP-date (RFC 9110), which float() rejects
      Raise("HTTPStatusError", 429, "Wed, 21 Oct 2015 07:28:00 GMT") }

RawOutcomes(i) == { Return(l) : l \in FlightLists(i) } \cup RawExceptions

\* The classes `except Exception` catches; asyncio.CancelledError derives
\* from BaseException.
ExceptionSubclasses ==
    { "TimeoutException", "HTTPStatusError", "ValueError", "TimeoutError" }

CaughtByExceptException(exc) == exc \in ExceptionSubclasses

IsNumeric(header) == header \in { "120", "1.5" }

\* _map_error = _map_http_error; float(retry_after) raises ValueError on a
\* header that is not a number, inside the except block of search.
MapHttpError(i, raw) ==
    IF raw.exc = "TimeoutException"
    THEN Err(ProviderErr("TIMEOUT_ERROR", AllProviders[i], "timeout", <<>>))
    ELSE IF raw.exc = "HTTPStatusError"
    THEN IF raw.status = 429
         THEN IF raw.retry_after # "none" /\ ~ IsNumeric(raw.retry_after)
              THEN Raised("ValueError")
              ELSE Err(ProviderErr("RATE_LIMIT_ERROR", AllProviders[i],
                                   "Rate limit exceeded", <<>>))
         ELSE Err(ProviderErr("PROVIDER_ERROR", AllProviders[i], "HTTP error", <<>>))
    ELSE Err(ProviderErr("PROVIDER_ERROR", AllProviders[i], raw.exc, <<>>))

BaseSearch(i, raw) ==
    IF raw.kind = "return" THEN Ok(raw.flights)
    ELSE IF CaughtByExceptException(raw.exc) THEN MapHttpError(i, raw)
    ELSE Raised(raw.exc)

----------------------------------------------------------------------------
(* MultiProviderAggregator.search.                                         *)

Range(s) == { s[k] : k \in 1..Len(s) }

\* The awaits a provider call can be suspended in, and what follows each.
\* "created": the task exists and has not run yet.
NextAwait(at) ==
    CASE at = "created"    -> { "rate_limit", "http" }
      [] at = "rate_limit" -> { "http" }
      [] at = "http"       -> { "backoff", "poll_sleep" }
      [] at = "backoff"    -> { "http" }
      [] OTHER             -> { "http" }

\* A call can end from the HTTP request, or (a cache hit) without suspending.
CanFinish(i, raw) ==
    \/ taskAt[i] = "http"
    \/ taskAt[i] = "created" /\ raw.kind = "return"

\* zip(self._providers, results): gather returns the results in the order
\* of its arguments.
GatherResultsInCompletionOrder(provs) ==
    [k \in 1..Len(provs) |-> taskOut[completionOrder[k]]]

GatherResults(provs) == [k \in 1..Len(provs) |-> taskOut[provs[k]]]

RECURSIVE MergeResults(_, _)
MergeResults(results, k) ==
    IF k = 0 THEN <<>>
    ELSE IF results[k].kind = "Ok"
         THEN MergeResults(results, k - 1) \o results[k].value
         ELSE MergeResults(results, k - 1)

RECURSIVE FailedProviders(_, _, _)
FailedProviders(provs, results, k) ==
    IF k = 0 THEN <<>>
    ELSE IF results[k].kind = "Err"
         THEN Append(FailedProviders(provs, results, k - 1), AllProviders[provs[k]])
         ELSE FailedProviders(provs, results, k - 1)

\* Err only when no provider returned Ok
CollateOkIfAnyOk(provs, results) ==
    LET all_flights == MergeResults(results, Len(results))
        failed == FailedProviders(provs, results, Len(results))
    IN  IF \A k \in 1..Len(results) : results[k].kind # "Ok"
        THEN Err(ProviderErr("PROVIDER_ERROR", "aggregator", "All providers failed", failed))
        ELSE Ok(SortByPrice(Deduplicate(all_flights)))

Collate(provs, results) ==
    LET all_flights == MergeResults(results, Len(results))
        failed == FailedProviders(provs, results, Len(results))
    IN  IF all_flights = <<>>
        THEN Err(ProviderErr("PROVIDER_ERROR", "aggregator", "All providers failed", failed))
        ELSE Ok(SortByPrice(Deduplicate(all_flights)))

Pending(g) == g \in { "pending", "cancelling" }

\* gather's callback on a finished child, return_exceptions=False.
GatherAfter(i, out, newSt) ==
    IF ~ Pending(gatherSt) THEN gatherSt
    ELSE IF out.kind = "Raised"
    THEN IF out.error = "CancelledError" THEN "cancelled" ELSE "exc"
    ELSE IF \A j \in Range(providers) : newSt[j] # "running"
    THEN IF gatherSt = "cancelling" THEN "cancelled" ELSE "done"
    ELSE gatherSt

AggStart ==
    /\ aggPc = "idle"
    /\ IF providers = <<>>
       THEN /\ aggPc' = "done"
            /\ aggResult' = Err(ProviderErr("PROVIDER_ERROR", "aggregator",
                                            "No providers available", <<>>))
            /\ UNCHANGED <<gatherSt, taskSt, taskAt>>
       ELSE /\ aggPc' = "gather"
            /\ gatherSt' = "pending"
            /\ taskSt' = [i \in ProviderIdx |->
                            IF i \in Range(providers) THEN "running" ELSE "none"]
            /\ taskAt' = [i \in ProviderIdx |->
                            IF i \in Range(providers) THEN "created" ELSE "none"]
            /\ UNCHANGED aggResult
    /\ UNCHANGED <<providers, taskCancel, taskOut, mustCancel, cancelRequested,
                   inFlightAtCancel, completionOrder, decoVars, restVars>>

TaskAdvance(i) ==
    /\ taskSt[i] = "running"
    /\ ~ taskCancel[i]
    /\ \E at \in NextAwait(taskAt[i]) : taskAt' = [taskAt EXCEPT ![i] = at]
    /\ UNCHANGED <<providers, aggPc, gatherSt, taskSt, taskCancel, taskOut,
                   aggResult, mustCancel, cancelRequested, inFlightAtCancel,
                   completionOrder, decoVars, restVars>>

TaskEnds(i, out) ==
    LET newSt == [taskSt EXCEPT ![i] =
                    IF out.kind = "Raised"
                    THEN IF out.error = "CancelledError" THEN "cancelled" ELSE "raised"
                    ELSE "done"]
    IN  /\ taskSt' = newSt
        /\ taskAt' = [taskAt EXCEPT ![i] = "none"]
        /\ taskOut' = [taskOut EXCEPT ![i] = out]
        /\ taskCancel' = [taskCancel EXCEPT ![i] = FALSE]
        /\ completionOrder' = Append(completionOrder, i)
        /\ gatherSt' = GatherAfter(i, out, newSt)
        /\ UNCHANGED <<providers, aggPc, aggResult, mustCancel, cancelRequested,
                       inFlightAtCancel, decoVars, restVars>>

TaskFinish(i) ==
    /\ taskSt[i] = "running"
    /\ ~ taskCancel[i]
    /\ \E raw \in RawOutcomes(i) :
          /\ CanFinish(i, raw)
          /\ TaskEnds(i, BaseSearch(i, raw))

\* The pending CancelledError is thrown into the task at its await.
TaskCancelled(i) ==
    /\ taskSt[i] = "running"
    /\ taskCancel[i]
    /\ TaskEnds(i, BaseSearch(i, CancelledError))

\* Task.cancel() on the task that runs the aggregator, suspended in
\* `await asyncio.gather(...)`: a pending gather cancels its children, a
\* finished one cannot be cancelled and the task is marked instead.
CancelChildren(i) == taskSt[i] = "running"

Cancel ==
    /\ aggPc = "gather"
    /\ ~ cancelRequested
    /\ cancelRequested' = TRUE
    /\ inFlightAtCancel' = { i \in ProviderIdx : taskSt[i] = "running" }
    /\ IF Pending(gatherSt)
       THEN /\ gatherSt' = "cancelling"
            /\ taskCancel' = [i \in ProviderIdx |-> CancelChildren(i)]
            /\ UNCHANGED mustCancel
       ELSE /\ mustCancel' = TRUE
            /\ UNCHANGED <<gatherSt, taskCancel>>
    /\ UNCHANGED <<providers, aggPc, taskSt, taskAt, taskOut, aggResult,
                   completionOrder, decoVars, restVars>>

\* The exception gather propagates: that of the first child that raised.
FirstRaised ==
    LET k == CHOOSE k \in 1..Len(completionOrder) :
                 /\ taskSt[completionOrder[k]] = "raised"
                 /\ \A m \in 1..(k - 1) : taskSt[completionOrder[m]] # "raised"
    IN  taskOut[completionOrder[k]]

AggResume ==
    /\ aggPc = "gather"
    /\ ~ Pending(gatherSt)
    /\ aggPc' = "done"
    /\ aggResult' =
          IF mustCancel \/ gatherSt = "cancelled" THEN Raised("CancelledError")
          ELSE IF gatherSt = "exc" THEN FirstRaised
          ELSE Collate(providers, GatherResults(providers))
    /\ UNCHANGED <<providers, gatherSt, taskSt, taskAt, taskCancel, taskOut,
                   mustCancel, cancelRequested, inFlightAtCancel,
                   completionOrder, decoVars, restVars>>

RECURSIVE Prefix(_, _)
Prefix(s, n) == IF n = 0 THEN <<>> ELSE Append(Prefix(s, n - 1), s[n])

NoOp == [op |-> "none", key |-> "none", ttl |-> 0, found |-> FALSE,
         value |-> "none", count |-> 0]

CacheOpIdle ==
    /\ lastOp = NoOp
    /\ accessOrder = <<>>
    /\ onlySets = TRUE
    /\ zeroTtlKeys = {}

LimiterIdle ==
    /\ rate = 1
    /\ per = 1
    /\ allowance = 1
    /\ last_check = 0
    /\ limLock = 0
    /\ lockQueue = <<>>
    /\ lpc = <<>>
    /\ lret = <<>>
    /\ wakeAt = 0
    /\ grants = <<>>
    /\ resetCalled = FALSE
    /\ tryTrue = 0
    /\ tryFalse = 0
    /\ burstTokens = -1

NoOutcome == [kind |-> "none", status |-> 0, exc |-> "none", attempt |-> 0]

HttpIdle ==
    /\ max_retries = 0
    /\ method = "none"
    /\ hpc = "idle"
    /\ attempt = 0
    /\ last_exception = NoOutcome
    /\ hresult = NoOutcome
    /\ hlog = <<>>
    /\ waits = <<>>

NoPoll == [kind |-> "none", poll_status |-> "none", flights |-> <<>>,
           exc |-> "none", status_code |-> 0]

PollIdle ==
    /\ ppc = "idle"
    /\ pollAttempt = 0
    /\ pollLog = <<>>
    /\ pollSleeps = <<>>
    /\ pollResult = NoPoll
    /\ pSearch = NoResult

ProviderIdle == searchEnded = {}

UseCaseIdle ==
    /\ max_search_results = 0
    /\ ucProviders = <<>>
    /\ ucProviderResult = NoResult
    /\ ucResult = NoResult

RegistryIdle ==
    /\ registry = <<>>
    /\ lastCall = [op |-> "none", name |-> "none", duplicate |-> FALSE]

NoFlight == [kind |-> "none", departure_time |-> 0, arrival_time |-> 0]

FlightIdle == newFlight = NoFlight

MoreIdle ==
    /\ PollIdle
    /\ ProviderIdle
    /\ UseCaseIdle
    /\ RegistryIdle
    /\ FlightIdle

RestIdle ==
    /\ CacheOpIdle
    /\ LimiterIdle
    /\ HttpIdle
    /\ MoreIdle

DecoIdle ==
    /\ cache = <<>>
    /\ hits = 0
    /\ misses = 0
    /\ now = 0
    /\ cacheLock = "free"
    /\ maxSize = 1
    /\ ttlSeconds = 0
    /\ dTask = <<>>
    /\ providerCalls = <<>>
    /\ lastEnded = 0

InitAgg ==
    /\ providers \in { Prefix(<<1, 2, 3>>, n) : n \in 0..Len(AllProviders) }
    /\ aggPc = "idle"
    /\ gatherSt = "none"
    /\ taskSt = [i \in ProviderIdx |-> "none"]
    /\ taskAt = [i \in ProviderIdx |-> "none"]
    /\ taskCancel = [i \in ProviderIdx |-> FALSE]
    /\ taskOut = [i \in ProviderIdx |-> NoResult]
    /\ aggResult = NoResult
    /\ mustCancel = FALSE
    /\ cancelRequested = FALSE
    /\ inFlightAtCancel = {}
    /\ completionOrder = <<>>
    /\ DecoIdle
    /\ RestIdle

NextAgg ==
    \/ AggStart
    \/ \E i \in ProviderIdx : TaskAdvance(i)
    \/ \E i \in ProviderIdx : TaskFinish(i)
    \/ \E i \in ProviderIdx : TaskCancelled(i)
    \/ Cancel
    \/ AggResume

SpecAgg == InitAgg /\ [][NextAgg]_vars

----------------------------------------------------------------------------
(* Claims about MultiProviderAggregator.search (SpecAgg).                  *)

ListedProviders == Range(providers)

\* The search returned (it did not raise) and every provider call returned
\* Ok or Err.
AllReturned ==
    /\ aggPc = "done"
    /\ aggResult.kind \in { "Ok", "Err" }
    /\ \A i \in ListedProviders : taskOut[i].kind \in { "Ok", "Err" }

SomeOk == \E i \in ListedProviders : taskOut[i].kind = "Ok"

\* The providers' Ok lists, concatenated in provider-list order.
RECURSIVE MergedInListOrder(_)
MergedInListOrder(k) ==
    IF k = 0 THEN <<>>
    ELSE MergedInListOrder(k - 1) \o taskOut[providers[k]].value

Merged == MergedInListOrder(Len(providers))

\* The position of a flight in the merged list (ids are unique).
PosIn(list, f) == CHOOSE k \in 1..Len(list) : list[k].id = f.id

\* Duplicates as the specification defines them.
DuplicateOf(f, g) ==
    /\ f.origin = g.origin
    /\ f.destination = g.destination
    /\ f.airline = g.airline
    /\ Abs(f.departure_time - g.departure_time) <= 30
    /\ Abs(f.arrival_time - g.arrival_time) <= 30
    /\ 40 * Abs(f.price - g.price) <= f.price + g.price

\* C1: with k providers of which j >= 1 return Ok, the result is Ok and its
\* list is the concatenation, in provider-list order, of the Ok lists with
\* duplicates removed, sorted by price ascending; providers that returned
\* Err contribute nothing and do not turn the result into Err.
C1_OkUnionOfOkLists ==
    (AllReturned /\ SomeOk) =>
        /\ aggResult.kind = "Ok"
        /\ aggResult.value = SortByPrice(Deduplicate(Merged))

\* C2: the search returns Err if and only if the provider list is empty or
\* every provider's search returned Err; whenever at least one provider
\* returned Ok, the result is Ok.
C2_ErrIffAllProvidersFailed ==
    AllReturned =>
        /\ aggResult.kind = "Err" <=>
              (providers = <<>> \/ \A i \in ListedProviders : taskOut[i].kind = "Err")
        /\ SomeOk => aggResult.kind = "Ok"

\* C3: every provider's search is started before the aggregator waits on
\* any of them, and the aggregator's search does not end (return or raise)
\* while a provider call is still running, whether a provider returned Err
\* or raised. (The caller's cancellation is the subject of C7.)
C3_NoCallOutlivesSearch ==
    /\ aggPc = "gather" => \A i \in ListedProviders : taskSt[i] # "none"
    /\ (aggPc = "done" /\ ~ cancelRequested) =>
           \A i \in ListedProviders : taskSt[i] # "running"

\* C4: the output is decided by the providers' outputs taken in
\* provider-list order, whatever the order in which the calls completed;
\* a flight that was dropped has a surviving duplicate earlier in merged
\* order.
C4_OutputIndependentOfCompletionOrder ==
    (aggPc = "done" /\ aggResult.kind = "Ok") =>
        /\ aggResult.value = SortByPrice(Deduplicate(Merged))
        /\ \A b \in 1..Len(Merged) :
              Merged[b] \notin Range(aggResult.value) =>
                 \E a \in 1..(b - 1) :
                    /\ Merged[a] \in Range(aggResult.value)
                    /\ DuplicateOf(Merged[b], Merged[a])

\* C4 witness: the second provider completed first, its flight is a
\* duplicate of the first provider's, and the first provider's survived.
C4_Witness ==
    /\ aggPc = "done"
    /\ aggResult.kind = "Ok"
    /\ Len(completionOrder) >= 2
    /\ completionOrder[1] = 2
    /\ completionOrder[2] = 1
    /\ Len(taskOut[1].value) = 1
    /\ Len(taskOut[2].value) = 1
    /\ DuplicateOf(taskOut[1].value[1], taskOut[2].value[1])
    /\ aggResult.value = taskOut[1].value

\* C5: no two flights of the output are duplicates of each other.
C5_NoDuplicatesInOutput ==
    (aggPc = "done" /\ aggResult.kind = "Ok") =>
        \A a, b \in 1..Len(aggResult.value) :
            a # b => ~ DuplicateOf(aggResult.value[a], aggResult.value[b])

\* C6: the output is non-decreasing in price, and two flights of equal
\* price appear in their merged order.
C6_SortedAndStable ==
    (aggPc = "done" /\ aggResult.kind = "Ok") =>
        \A a, b \in 1..Len(aggResult.value) :
            a < b =>
               /\ aggResult.value[a].price <= aggResult.value[b].price
               /\ aggResult.value[a].price = aggResult.value[b].price =>
                     PosIn(Merged, aggResult.value[a]) < PosIn(Merged, aggResult.value[b])

\* C6 witness: the sort moved a cheaper flight ahead of two flights of
\* equal price, which come from different providers and kept their order.
C6_Witness ==
    /\ aggPc = "done"
    /\ aggResult.kind = "Ok"
    /\ Len(aggResult.value) >= 3
    /\ aggResult.value # Deduplicate(Merged)
    /\ \E a \in 1..(Len(aggResult.value) - 1) :
          /\ aggResult.value[a].price = aggResult.value[a + 1].price
          /\ \E i, j \in ListedProviders :
                /\ i < j
                /\ aggResult.value[a] \in Range(taskOut[i].value)
                /\ aggResult.value[a + 1] \in Range(taskOut[j].value)

\* C7: once the caller has cancelled a search in progress, every provider
\* call that was in flight has the cancellation delivered (it is pending or
\* the call has ended cancelled), and the search does not end with Ok.
C7_CancelReachesEveryCall ==
    cancelRequested =>
        /\ \A i \in inFlightAtCancel : taskCancel[i] \/ taskSt[i] = "cancelled"
        /\ aggPc = "done" => aggResult.kind # "Ok"

----------------------------------------------------------------------------
(* InMemoryCache and CacheDecorator (SpecDeco).                            *)

SearchCriteria(dst) ==
    [origin |-> "JFK", destination |-> dst, departure_date |-> 30,
     return_date |-> "none", adults |-> 1, children |-> 0, infants |-> 0,
     cabin_class |-> "economy", non_stop_only |-> FALSE, max_stops |-> "none",
     flexible_dates |-> FALSE, date_flexibility_days |-> 3]

AllCriteria == { SearchCriteria("LAX"), SearchCriteria("SFO") }

\* The providers wrapped in a CacheDecorator; they share one cache.
WrappedProviders == { 1, 2 }

EffectiveMaxStops(criteria) ==
    IF criteria.non_stop_only THEN "0" ELSE criteria.max_stops

\* A key that leaves the "provider" entry out of the hashed dictionary.
GenerateCacheKeySharedByProviders(criteria, provider) ==
    << "all", criteria.origin, criteria.destination, criteria.departure_date,
       criteria.return_date, criteria.adults, criteria.children, criteria.infants,
       criteria.cabin_class, EffectiveMaxStops(criteria), criteria.flexible_dates,
       IF criteria.flexible_dates THEN criteria.date_flexibility_days ELSE 0 >>

\* sha256 over the JSON of these fields, keys sorted: the key is decided by
\* the fields' values (collisions of the 16 hex digits are not modelled).
GenerateCacheKey(criteria, provider) ==
    << provider, criteria.origin, criteria.destination, criteria.departure_date,
       criteria.return_date, criteria.adults, criteria.children, criteria.infants,
       criteria.cabin_class, EffectiveMaxStops(criteria), criteria.flexible_dates,
       IF criteria.flexible_dates THEN criteria.date_flexibility_days ELSE 0 >>

DefaultTtlSeconds == 300

\* ttl_seconds=None
NoneTtl == -1

TtlChoices == { NoneTtl, 0, 1 }

HasKey(c, key) == \E k \in 1..Len(c) : c[k].key = key

EntryFor(c, key) == c[CHOOSE k \in 1..Len(c) : c[k].key = key]

Without(c, key) == SelectSeq(c, LAMBDA e : e.key # key)

ExpiredStrict(entry, t) == t > entry.expires_at

Expired(entry, t) == t >= entry.expires_at

\* InMemoryCache.get: the value returned (found = FALSE for None)...
GetLookup(c, key, t) ==
    IF HasKey(c, key) /\ ~ Expired(EntryFor(c, key), t)
    THEN [found |-> TRUE, value |-> EntryFor(c, key).value]
    ELSE [found |-> FALSE, value |-> <<>>]

\* ... and the entries it leaves.
CacheAfterGetNoTouch(c, key, t) ==
    IF HasKey(c, key) /\ Expired(EntryFor(c, key), t) THEN Without(c, key) ELSE c

CacheAfterGet(c, key, t) ==
    IF ~ HasKey(c, key) THEN c
    ELSE IF Expired(EntryFor(c, key), t) THEN Without(c, key)
    ELSE Append(Without(c, key), EntryFor(c, key))

EvictNothing(c, max) == c

RECURSIVE Evict(_, _)
Evict(c, max) == IF Len(c) > max THEN Evict(Tail(c), max) ELSE c

\* InMemoryCache.set
CacheAfterSet(c, key, value, ttl_seconds, t, max) ==
    LET ttl == IF ttl_seconds # NoneTtl THEN ttl_seconds ELSE DefaultTtlSeconds
        entry == [key |-> key, value |-> value, expires_at |-> t + ttl]
    IN  Evict(Append(Without(c, key), entry), max)

\* `async with self._lock` ends with the operation: the lock is released
\* when get, set, ... return.
HeldAcrossProviderCall(t, found) == IF found THEN "free" ELSE ToString(t)

LockAfterGet(t, found) == "free"

LockAfterSet(t) == "free"

\* match result: Ok is stored, Err is not.
ShouldCacheNever(result) == FALSE

ShouldCacheAlways(result) == TRUE

ShouldCache(result) == result.kind = "Ok"

FirstOffer(p) == { f \in Pool(p) : f.id = AllProviders[p] \o "_1" }

\* What a wrapped provider's search ends with for a request: Ok, Err, or
\* the exception BaseFlightProvider.search lets through.
WrappedOutcomes(p) ==
    { BaseSearch(p, raw) :
        raw \in { Return(l) : l \in ListsOver(FirstOffer(p), 1) }
                  \cup { r \in RawExceptions : r.status # 500 } }

SearchTasks == 1..MaxSearches

IdleTask ==
    [pc |-> "idle", criteria |-> SearchCriteria("LAX"), provider |-> 1,
     res |-> NoResult, hit |-> FALSE, alone |-> TRUE]

Running == { t \in SearchTasks : dTask[t].pc = "provider" }

\* CacheDecorator.search up to `await self._provider.search(criteria)`: the
\* cache lookup, and on a hit the return.
SearchStart(t, criteria, p) ==
    LET cache_key == GenerateCacheKey(criteria, AllProviders[p])
        look == GetLookup(cache, cache_key, now)
        started == [dTask[t] EXCEPT !.criteria = criteria, !.provider = p,
                                    !.alone = (Running = {})]
        \* the searches this one overlaps
        overlapped == [u \in SearchTasks |->
                         IF u \in Running THEN [dTask[u] EXCEPT !.alone = FALSE]
                         ELSE dTask[u]]
    IN  /\ dTask[t].pc = "idle"
        /\ t > 1 => dTask[t - 1].pc # "idle"
        /\ cacheLock = "free"
        /\ cache' = CacheAfterGet(cache, cache_key, now)
        /\ cacheLock' = LockAfterGet(t, look.found)
        /\ IF look.found
           THEN /\ hits' = hits + 1
                /\ dTask' = [dTask EXCEPT ![t] =
                               [started EXCEPT !.pc = "done", !.hit = TRUE,
                                               !.res = Ok(look.value)]]
                /\ lastEnded' = t
                /\ UNCHANGED <<misses, providerCalls>>
           ELSE /\ misses' = misses + 1
                /\ dTask' = [overlapped EXCEPT ![t] = [started EXCEPT !.pc = "provider"]]
                /\ providerCalls' = [providerCalls EXCEPT ![p] = @ + 1]
                /\ lastEnded' = 0
                /\ UNCHANGED hits
        /\ UNCHANGED <<now, maxSize, ttlSeconds, aggVars, restVars>>

\* CacheDecorator.search from the provider's result to the return (or to
\* the exception leaving line 63).
ProviderReturns(t, result) ==
    LET cache_key == GenerateCacheKey(dTask[t].criteria, AllProviders[dTask[t].provider])
        newCache == IF ShouldCache(result)
                    THEN CacheAfterSet(cache, cache_key, result.value,
                                       ttlSeconds, now, maxSize)
                    ELSE cache
    IN  /\ dTask[t].pc = "provider"
        /\ ShouldCache(result) => cacheLock \in { "free", ToString(t) }
        /\ cache' = newCache
        /\ cacheLock' = LockAfterSet(t)
        /\ dTask' = [dTask EXCEPT ![t].pc = "done", ![t].res = result]
        /\ lastEnded' = t
        /\ UNCHANGED <<hits, misses, now, maxSize, ttlSeconds, providerCalls, aggVars, restVars>>

Tick ==
    /\ now < MaxTime
    /\ now' = now + 1
    /\ lastEnded' = lastEnded
    /\ UNCHANGED <<cache, hits, misses, cacheLock, maxSize, ttlSeconds, dTask,
                   providerCalls, aggVars, restVars>>

AggIdle ==
    /\ providers = <<>>
    /\ aggPc = "idle"
    /\ gatherSt = "none"
    /\ taskSt = [i \in ProviderIdx |-> "none"]
    /\ taskAt = [i \in ProviderIdx |-> "none"]
    /\ taskCancel = [i \in ProviderIdx |-> FALSE]
    /\ taskOut = [i \in ProviderIdx |-> NoResult]
    /\ aggResult = NoResult
    /\ mustCancel = FALSE
    /\ cancelRequested = FALSE
    /\ inFlightAtCancel = {}
    /\ completionOrder = <<>>

InitDeco ==
    /\ cache = <<>>
    /\ hits = 0
    /\ misses = 0
    /\ now = 0
    /\ cacheLock = "free"
    /\ maxSize \in { 1, 2 }
    /\ ttlSeconds \in TtlChoices
    /\ dTask = [t \in SearchTasks |-> IdleTask]
    /\ providerCalls = [p \in WrappedProviders |-> 0]
    /\ lastEnded = 0
    /\ AggIdle
    /\ RestIdle

NextDeco ==
    \/ \E t \in SearchTasks, criteria \in AllCriteria, p \in WrappedProviders :
          SearchStart(t, criteria, p)
    \/ \E t \in SearchTasks :
          \E result \in WrappedOutcomes(dTask[t].provider) : ProviderReturns(t, result)
    \/ Tick

SpecDeco == InitDeco /\ [][NextDeco]_vars

----------------------------------------------------------------------------
(* Claims about CacheDecorator over InMemoryCache (SpecDeco).              *)

SameRequest(a, b) ==
    /\ a.criteria = b.criteria
    /\ a.provider = b.provider

KeyOf(task) == GenerateCacheKey(task.criteria, AllProviders[task.provider])

TotalProviderCalls(calls) == calls[1] + calls[2]

\* Search b starts in this step, and the last thing that happened before
\* (clock ticks aside) was search a returning.
StartsNextAfter(a, b) ==
    /\ a # b
    /\ lastEnded = a
    /\ dTask[a].pc = "done"
    /\ dTask[b].pc = "idle"
    /\ dTask'[b].pc # "idle"
    /\ SameRequest(dTask[a], dTask'[b])

NoExpiredEntry(key) ==
    \A k \in 1..Len(cache) : cache[k].key = key => ~ Expired(cache[k], now)

\* C8: an identical search that follows a search which returned Ok, the
\* key's entry not having expired, does not invoke the wrapped provider: it
\* is answered from the cache with the first search's flight list and counts
\* one hit; when these are the first two searches on the cache, the provider
\* was invoked exactly once and the counters read misses = 1, hits = 1.
C8_SecondSearchServedFromCache ==
    [][\A a, b \in SearchTasks :
         (/\ StartsNextAfter(a, b)
          /\ dTask[a].res.kind = "Ok"
          /\ NoExpiredEntry(KeyOf(dTask[a])))
         => /\ dTask'[b].pc = "done"
            /\ dTask'[b].hit
            /\ dTask'[b].res = dTask[a].res
            /\ providerCalls' = providerCalls
            /\ hits' = hits + 1
            /\ misses' = misses
            /\ (a = 1 /\ b = 2)
                 => /\ TotalProviderCalls(providerCalls') = 1
                    /\ hits' = 1
                    /\ misses' = 1]_vars

C8_Witness ==
    /\ dTask[1].pc = "done" /\ ~ dTask[1].hit
    /\ dTask[1].res.kind = "Ok" /\ dTask[1].res.value # <<>>
    /\ dTask[2].pc = "done" /\ dTask[2].hit
    /\ SameRequest(dTask[1], dTask[2])
    /\ dTask[2].res = dTask[1].res
    /\ TotalProviderCalls(providerCalls) = 1
    /\ hits = 1 /\ misses = 1

\* C9: a search whose wrapped provider returns Err leaves the cache's
\* entries as they were and returns that Err; the identical search that
\* follows it (no other search having overlapped the failed one) misses and
\* invokes the wrapped provider again.
C9_ErrIsNotCached ==
    [][/\ \A t \in SearchTasks :
            (/\ dTask[t].pc = "provider"
             /\ dTask'[t].pc = "done"
             /\ dTask'[t].res.kind = "Err")
            => /\ cache' = cache
               /\ dTask'[t].res \in WrappedOutcomes(dTask[t].provider)
       /\ \A a, b \in SearchTasks :
            (/\ StartsNextAfter(a, b)
             /\ dTask[a].res.kind = "Err"
             /\ dTask[a].alone)
            => /\ dTask'[b].pc = "provider"
               /\ providerCalls'[dTask'[b].provider]
                    = providerCalls[dTask'[b].provider] + 1]_vars

C9_Witness ==
    /\ dTask[1].pc = "done" /\ dTask[1].res.kind = "Err" /\ dTask[1].alone
    /\ dTask[2].pc = "provider"
    /\ SameRequest(dTask[1], dTask[2])
    /\ providerCalls[dTask[1].provider] = 2
    /\ cache = <<>>

\* C10: the cache's lock is free whenever no cache operation is executing,
\* in particular while a search awaits its wrapped provider, so that other
\* searches' cache operations go through between a miss and its set.
C10_LockNotHeldAcrossProviderCall ==
    /\ cacheLock = "free"
    /\ \A t \in SearchTasks : dTask[t].pc = "provider" => cacheLock # ToString(t)

\* Search 1 is between its miss and its set; search 2, started later, has
\* completed its get and its set.
C10_Witness ==
    /\ dTask[1].pc = "provider"
    /\ dTask[2].pc = "done" /\ ~ dTask[2].hit /\ dTask[2].res.kind = "Ok"
    /\ cache # <<>>
    /\ cacheLock = "free"

\* The flights of a list all come from provider p's back-end.
OfferedBy(p, value) == \A i \in 1..Len(value) : value[i] \in Pool(p)

\* A search that ended before this step was on the same provider with the
\* same criteria and ended Ok.
CachedBySameProvider(task) ==
    \E a \in SearchTasks :
        /\ dTask[a].pc = "done"
        /\ dTask[a].res.kind = "Ok"
        /\ SameRequest(dTask[a], task)

\* C39: the shared cache's entries are isolated per provider. A search that
\* starts on provider B while no search on B with the same criteria has ended
\* Ok (whatever the decorators of other providers cached for those criteria)
\* misses and invokes B; and a list a decorator answers from the cache holds
\* only flights of the provider it wraps.
C39_CacheIsolatedPerProvider ==
    /\ [][\A b \in SearchTasks :
            (/\ dTask[b].pc = "idle"
             /\ dTask'[b].pc # "idle"
             /\ ~ CachedBySameProvider(dTask'[b]))
            => /\ dTask'[b].pc = "provider"
               /\ ~ dTask'[b].hit
               /\ misses' = misses + 1
               /\ providerCalls'[dTask'[b].provider]
                    = providerCalls[dTask'[b].provider] + 1]_vars
    /\ [](\A t \in SearchTasks :
            (dTask[t].pc = "done" /\ dTask[t].hit)
            => /\ dTask[t].res.kind = "Ok"
               /\ OfferedBy(dTask[t].provider, dTask[t].res.value)
               /\ providerCalls[dTask[t].provider] >= 1)

\* Provider 1's list for the criteria is in the cache, unexpired, when the
\* search on provider 2 with the same criteria starts; that search misses.
C39_Witness ==
    /\ now = 0 /\ ttlSeconds # 0
    /\ dTask[1].pc = "done" /\ dTask[1].res.kind = "Ok"
    /\ dTask[1].res.value # <<>>
    /\ dTask[1].provider = 1
    /\ dTask[2].provider = 2
    /\ dTask[2].criteria = dTask[1].criteria
    /\ dTask[2].alone
    /\ dTask[2].pc = "done" /\ ~ dTask[2].hit
    /\ HasKey(cache, KeyOf(dTask[1]))
    /\ providerCalls[1] = 1 /\ providerCalls[2] = 1

----------------------------------------------------------------------------
(* InMemoryCache on its own: get, set, delete, exists, clear (SpecCache).  *)
(* Every operation runs inside `async with self._lock` without awaiting,   *)
(* so concurrent callers' operations execute one after another.            *)

CacheKeys == { "k1", "k2", "k3" }

CacheValues == { "a", "b" }

KeysOf(c) == { c[k].key : k \in 1..Len(c) }

RemoveKey(order, key) == SelectSeq(order, LAMBDA k : k # key)

OpResult(op, key, ttl, found, value, count) ==
    [op |-> op, key |-> key, ttl |-> ttl, found |-> found, value |-> value,
     count |-> count]

\* InMemoryCache.exists: an expired entry is deleted, a live one stays where
\* it is in the LRU order.
CacheAfterExists(c, key, t) ==
    IF HasKey(c, key) /\ Expired(EntryFor(c, key), t) THEN Without(c, key) ELSE c

\* clear leaves _hits and _misses alone.
CountersReset(h, m) == <<0, 0>>

CountersAfterClear(h, m) == <<h, m>>

CacheGet(key) ==
    LET look == GetLookup(cache, key, now) IN
    /\ hits + misses < MaxGets
    /\ cacheLock = "free"
    /\ cache' = CacheAfterGet(cache, key, now)
    /\ cacheLock' = LockAfterGet(0, look.found)
    /\ IF look.found
       THEN /\ hits' = hits + 1
            /\ misses' = misses
            /\ accessOrder' = Append(RemoveKey(accessOrder, key), key)
       ELSE /\ misses' = misses + 1
            /\ hits' = hits
            /\ accessOrder' = accessOrder
    /\ lastOp' = OpResult("get", key, 0, look.found,
                          IF look.found THEN look.value ELSE "null",
                          Len(cache) - Len(cache'))
    /\ onlySets' = FALSE
    /\ zeroTtlKeys' = zeroTtlKeys \cap KeysOf(cache')
    /\ UNCHANGED <<now, maxSize, ttlSeconds, dTask, providerCalls, lastEnded, aggVars, limVars, httpVars, moreVars>>

CacheSet(key, value, ttl_seconds) ==
    /\ cacheLock = "free"
    /\ cache' = CacheAfterSet(cache, key, value, ttl_seconds, now, maxSize)
    /\ cacheLock' = LockAfterSet(0)
    /\ lastOp' = OpResult("set", key, ttl_seconds, FALSE, value,
                          Len(cache) + 1 - Len(cache'))
    /\ accessOrder' = Append(RemoveKey(accessOrder, key), key)
    /\ zeroTtlKeys' = (IF ttl_seconds = 0 THEN zeroTtlKeys \cup { key }
                       ELSE zeroTtlKeys \ { key }) \cap KeysOf(cache')
    /\ UNCHANGED <<hits, misses, now, maxSize, ttlSeconds, dTask, providerCalls,
                   lastEnded, onlySets, aggVars, limVars, httpVars, moreVars>>

CacheDelete(key) ==
    /\ cacheLock = "free"
    /\ cache' = Without(cache, key)
    /\ lastOp' = OpResult("delete", key, 0, HasKey(cache, key), "none",
                          Len(cache) - Len(cache'))
    /\ onlySets' = FALSE
    /\ zeroTtlKeys' = zeroTtlKeys \ { key }
    /\ UNCHANGED <<hits, misses, now, cacheLock, maxSize, ttlSeconds, dTask,
                   providerCalls, lastEnded, accessOrder, aggVars, limVars, httpVars, moreVars>>

CacheExists(key) ==
    /\ cacheLock = "free"
    /\ cache' = CacheAfterExists(cache, key, now)
    /\ lastOp' = OpResult("exists", key, 0,
                          HasKey(cache, key) /\ ~ Expired(EntryFor(cache, key), now),
                          "none", Len(cache) - Len(cache'))
    /\ onlySets' = FALSE
    /\ zeroTtlKeys' = zeroTtlKeys \cap KeysOf(cache')
    /\ UNCHANGED <<hits, misses, now, cacheLock, maxSize, ttlSeconds, dTask,
                   providerCalls, lastEnded, accessOrder, aggVars, limVars, httpVars, moreVars>>

CacheClear ==
    /\ cacheLock = "free"
    /\ cache' = <<>>
    /\ lastOp' = OpResult("clear", "none", 0, FALSE, "none", Len(cache))
    /\ hits' = CountersAfterClear(hits, misses)[1]
    /\ misses' = CountersAfterClear(hits, misses)[2]
    /\ onlySets' = FALSE
    /\ zeroTtlKeys' = {}
    /\ UNCHANGED <<now, cacheLock, maxSize, ttlSeconds, dTask, providerCalls,
                   lastEnded, accessOrder, aggVars, limVars, httpVars, moreVars>>

InitCache ==
    /\ cache = <<>>
    /\ hits = 0
    /\ misses = 0
    /\ now = 0
    /\ cacheLock = "free"
    /\ maxSize \in { 1, 2 }
    /\ ttlSeconds = 0
    /\ dTask = <<>>
    /\ providerCalls = <<>>
    /\ lastEnded = 0
    /\ AggIdle
    /\ CacheOpIdle
    /\ LimiterIdle
    /\ HttpIdle
    /\ MoreIdle

NextCache ==
    \/ \E key \in CacheKeys : CacheGet(key)
    \/ \E key \in CacheKeys, value \in CacheValues, ttl_seconds \in TtlChoices :
          CacheSet(key, value, ttl_seconds)
    \/ \E key \in CacheKeys : CacheDelete(key)
    \/ \E key \in CacheKeys : CacheExists(key)
    \/ CacheClear
    \/ Tick

SpecCache == InitCache /\ [][NextCache]_vars

----------------------------------------------------------------------------
(* Claims about InMemoryCache (SpecCache).                                 *)

PosOf(order, key) == CHOOSE k \in 1..Len(order) : order[k] = key

KeySeq(c) == [k \in 1..Len(c) |-> c[k].key]

Suffix(s, n) == SubSeq(s, Len(s) - n + 1, Len(s))

Min(a, b) == IF a < b THEN a ELSE b

\* The step is a call of the named operation (a clock tick keeps lastOp).
OpStep(op) == lastOp'.op = op /\ now' = now

\* C11: the cache never holds more than max_size entries.
C11_SizeBounded == Len(cache) <= maxSize

C11_Witness ==
    /\ lastOp.op = "set"
    /\ lastOp.count >= 1
    /\ Len(cache) = maxSize
    /\ Len(accessOrder) > maxSize

\* C12: a set evicts only when the cache would exceed max_size, and every
\* key it evicts was accessed (successful get or set) less recently than
\* every key it keeps; as long as only set has been called, the keys left
\* are the max_size most recently set ones.
C12_EvictsLeastRecentlyUsed ==
    [][/\ OpStep("set")
          => /\ Len(cache') = Min(maxSize, Cardinality(KeysOf(cache) \cup { lastOp'.key }))
             /\ lastOp'.key \in KeysOf(cache')
             /\ KeysOf(cache') \subseteq KeysOf(cache) \cup { lastOp'.key }
             /\ \A e \in KeysOf(cache) \ KeysOf(cache') :
                  \A k \in KeysOf(cache') \ { lastOp'.key } :
                     PosOf(accessOrder, e) < PosOf(accessOrder, k)
       /\ onlySets'
          => KeySeq(cache') = Suffix(accessOrder', Min(maxSize, Len(accessOrder')))]_vars

\* a hit on the oldest-inserted key saved it from the eviction that followed
C12_Witness ==
    /\ maxSize = 2
    /\ lastOp.op = "set"
    /\ lastOp.count = 1
    /\ hits >= 1
    /\ Len(accessOrder) = 3
    /\ KeySeq(cache) = Suffix(accessOrder, 2)

\* C13: a get returns a value only from an entry whose expiry time is still
\* ahead, never from one stored with ttl 0; on an entry whose expiry time
\* has been reached it returns null, removes the entry and counts one miss.
C13_GetNeverReturnsExpired ==
    [][OpStep("get")
         => LET key == lastOp'.key IN
            /\ lastOp'.found
                 => /\ HasKey(cache, key)
                    /\ now < EntryFor(cache, key).expires_at
                    /\ lastOp'.value = EntryFor(cache, key).value
                    /\ key \notin zeroTtlKeys
            /\ (HasKey(cache, key) /\ now >= EntryFor(cache, key).expires_at)
                 => /\ ~ lastOp'.found
                    /\ lastOp'.value = "null"
                    /\ ~ HasKey(cache', key)
                    /\ misses' = misses + 1
                    /\ hits' = hits]_vars

C13_Witness ==
    /\ lastOp.op = "get"
    /\ ~ lastOp.found
    /\ lastOp.count = 1
    /\ misses >= 1

\* C14: clear empties the cache, returns how many entries it removed and
\* leaves hits and misses as they were.
C14_ClearKeepsCounters ==
    [][OpStep("clear")
         => /\ cache' = <<>>
            /\ lastOp'.count = Len(cache)
            /\ hits' = hits
            /\ misses' = misses]_vars

C14_Witness ==
    /\ lastOp.op = "clear"
    /\ lastOp.count >= 1
    /\ hits >= 1
    /\ misses >= 1
    /\ cache = <<>>

----------------------------------------------------------------------------
(* RateLimiter (SpecLimiter). Time is in seconds; _allowance is kept in    *)
(* units of 1/per token, so that one token is `per` units and one second   *)
(* refills `rate` units.                                                   *)

Callers == 1..MaxCallers

\* (rate, per): provider_factory.py builds RateLimiter(rate=1, per=2.0).
LimiterConfigs == { <<1, 2>>, <<2, 2>> }

OneToken == per

FullBucket == rate * per

RefillUnclamped(a, last, t) == a + (t - last) * rate

\* lines 22-28: the refill, clamped to rate
Refill(a, last, t) ==
    LET filled == a + (t - last) * rate
    IN  IF filled > FullBucket THEN FullBucket ELSE filled

\* line 31: (1.0 - allowance) * (per / rate), seconds
SleepTime(a) == (OneToken - a) \div rate

\* lines 47-51 of try_acquire, on the refilled allowance
TryAcquireStrict(a) ==
    [ok |-> a > OneToken, allowance |-> IF a > OneToken THEN a - OneToken ELSE a]

TryAcquireKeeps(a) == [ok |-> a >= OneToken, allowance |-> a]

TryAcquireOutcome(a) ==
    [ok |-> a >= OneToken, allowance |-> IF a >= OneToken THEN a - OneToken ELSE a]

\* asyncio.Lock.release: the lock goes to the first waiter, if any.
Release == IF lockQueue = <<>> THEN 0 ELSE Head(lockQueue)

\* A release that forgets the waiters it does not wake.
QueueEmptiedOnRelease == <<>>

QueueAfterRelease == IF lockQueue = <<>> THEN <<>> ELSE Tail(lockQueue)

NoBurst ==
    /\ tryTrue' = 0
    /\ tryFalse' = 0
    /\ burstTokens' = -1

\* The body of acquire up to its return or its sleep, run by the caller
\* that has the lock.
AcquireBody(c) ==
    LET a == Refill(allowance, last_check, now) IN
    /\ last_check' = now
    /\ IF a < OneToken
       THEN /\ allowance' = a
            /\ wakeAt' = now + SleepTime(a)
            /\ limLock' = c
            /\ lpc' = [lpc EXCEPT ![c] = "sleeping"]
            /\ UNCHANGED <<lockQueue, lret, grants>>
       ELSE /\ allowance' = a - OneToken
            /\ limLock' = Release
            /\ lockQueue' = QueueAfterRelease
            /\ lpc' = [lpc EXCEPT ![c] = "done"]
            /\ lret' = [lret EXCEPT ![c] = "returned"]
            /\ grants' = Append(grants, now)
            /\ UNCHANGED wakeAt
    /\ NoBurst

\* The body of try_acquire, run by the caller that has the lock.
TryAcquireBody(c) ==
    LET a == Refill(allowance, last_check, now)
        out == TryAcquireOutcome(a)
        fresh == burstTokens = -1
    IN  /\ last_check' = now
        /\ allowance' = out.allowance
        /\ limLock' = Release
        /\ lockQueue' = QueueAfterRelease
        /\ lpc' = [lpc EXCEPT ![c] = "done"]
        /\ lret' = [lret EXCEPT ![c] = IF out.ok THEN "true" ELSE "false"]
        /\ grants' = IF out.ok THEN Append(grants, now) ELSE grants
        /\ burstTokens' = IF ~ fresh THEN burstTokens
                          ELSE IF a % OneToken = 0 THEN a \div OneToken ELSE -2
        /\ tryTrue' = (IF fresh THEN 0 ELSE tryTrue) + (IF out.ok THEN 1 ELSE 0)
        /\ tryFalse' = (IF fresh THEN 0 ELSE tryFalse) + (IF out.ok THEN 0 ELSE 1)
        /\ UNCHANGED wakeAt

Started(c) == IF c = 1 THEN TRUE ELSE lpc[c - 1] # "idle"

\* A call of acquire(): `async with self._lock` is entered at once when the
\* lock is free, else the caller queues.
Acquire(c) ==
    /\ lpc[c] = "idle"
    /\ Started(c)
    /\ IF limLock = 0
       THEN AcquireBody(c)
       ELSE /\ lpc' = [lpc EXCEPT ![c] = "wait_acquire"]
            /\ lockQueue' = Append(lockQueue, c)
            /\ UNCHANGED <<allowance, last_check, limLock, lret, wakeAt, grants,
                           tryTrue, tryFalse, burstTokens>>
    /\ UNCHANGED <<rate, per, resetCalled, now, aggVars, cacheOpVars, httpVars, moreVars>>
    /\ UNCHANGED <<cache, hits, misses, cacheLock, maxSize, ttlSeconds, dTask,
                   providerCalls, lastEnded>>

\* A call of try_acquire().
TryAcquire(c) ==
    /\ lpc[c] = "idle"
    /\ Started(c)
    /\ IF limLock = 0
       THEN TryAcquireBody(c)
       ELSE /\ lpc' = [lpc EXCEPT ![c] = "wait_try_acquire"]
            /\ lockQueue' = Append(lockQueue, c)
            /\ UNCHANGED <<allowance, last_check, limLock, lret, wakeAt, grants,
                           tryTrue, tryFalse, burstTokens>>
    /\ UNCHANGED <<rate, per, resetCalled, now, aggVars, cacheOpVars, httpVars, moreVars>>
    /\ UNCHANGED <<cache, hits, misses, cacheLock, maxSize, ttlSeconds, dTask,
                   providerCalls, lastEnded>>

\* A queued caller was handed the lock and runs its body.
EnterLock(c) ==
    /\ limLock = c
    /\ \/ lpc[c] = "wait_acquire" /\ AcquireBody(c)
       \/ lpc[c] = "wait_try_acquire" /\ TryAcquireBody(c)
    /\ UNCHANGED <<rate, per, resetCalled, now, aggVars, cacheOpVars, httpVars, moreVars>>
    /\ UNCHANGED <<cache, hits, misses, cacheLock, maxSize, ttlSeconds, dTask,
                   providerCalls, lastEnded>>

\* lines 32-33: the sleep is over, the allowance is zeroed, acquire returns.
WakeUp(c) ==
    /\ lpc[c] = "sleeping"
    /\ now >= wakeAt
    /\ allowance' = 0
    /\ limLock' = Release
    /\ lockQueue' = QueueAfterRelease
    /\ lpc' = [lpc EXCEPT ![c] = "done"]
    /\ lret' = [lret EXCEPT ![c] = "returned"]
    /\ grants' = Append(grants, now)
    /\ NoBurst
    /\ UNCHANGED <<last_check, wakeAt>>
    /\ UNCHANGED <<rate, per, resetCalled, now, aggVars, cacheOpVars, httpVars, moreVars>>
    /\ UNCHANGED <<cache, hits, misses, cacheLock, maxSize, ttlSeconds, dTask,
                   providerCalls, lastEnded>>

\* reset() is synchronous and does not take the lock.
Reset ==
    /\ allowance' = FullBucket
    /\ last_check' = now
    /\ resetCalled' = TRUE
    /\ NoBurst
    /\ UNCHANGED <<rate, per, limLock, lockQueue, lpc, lret, wakeAt, grants>>
    /\ UNCHANGED <<now, aggVars, cacheOpVars, httpVars, moreVars>>
    /\ UNCHANGED <<cache, hits, misses, cacheLock, maxSize, ttlSeconds, dTask,
                   providerCalls, lastEnded>>

ClockTick ==
    /\ now < MaxClock
    /\ now' = now + 1
    /\ NoBurst
    /\ UNCHANGED <<rate, per, allowance, last_check, limLock, lockQueue, lpc, lret,
                   wakeAt, grants, resetCalled>>
    /\ UNCHANGED <<aggVars, cacheOpVars, httpVars, moreVars>>
    /\ UNCHANGED <<cache, hits, misses, cacheLock, maxSize, ttlSeconds, dTask,
                   providerCalls, lastEnded>>

InitLimiter ==
    /\ \E cfg \in LimiterConfigs : rate = cfg[1] /\ per = cfg[2]
    /\ allowance = rate * per
    /\ last_check = 0
    /\ limLock = 0
    /\ lockQueue = <<>>
    /\ lpc = [c \in Callers |-> "idle"]
    /\ lret = [c \in Callers |-> "none"]
    /\ wakeAt = 0
    /\ grants = <<>>
    /\ resetCalled = FALSE
    /\ tryTrue = 0
    /\ tryFalse = 0
    /\ burstTokens = -1
    /\ AggIdle
    /\ DecoIdle
    /\ CacheOpIdle
    /\ HttpIdle
    /\ MoreIdle

NextLimiter ==
    \/ \E c \in Callers : Acquire(c)
    \/ \E c \in Callers : TryAcquire(c)
    \/ \E c \in Callers : EnterLock(c)
    \/ \E c \in Callers : WakeUp(c)
    \/ Reset
    \/ ClockTick

SpecLimiter == InitLimiter /\ [][NextLimiter]_vars

Sleeping(c) == lpc[c] = "sleeping" /\ now < wakeAt

\* The clock goes on while an asyncio.sleep of line 32 is pending: the
\* sleep's timer is due `sleep_time` seconds after it was set, whatever
\* the callers do.
TimeAdvances ==
    /\ now < MaxClock \/ \E c \in Callers : Sleeping(c)
    /\ now' = now + 1
    /\ NoBurst
    /\ UNCHANGED <<rate, per, allowance, last_check, limLock, lockQueue, lpc, lret,
                   wakeAt, grants, resetCalled>>
    /\ UNCHANGED <<aggVars, cacheOpVars, httpVars, moreVars>>
    /\ UNCHANGED <<cache, hits, misses, cacheLock, maxSize, ttlSeconds, dTask,
                   providerCalls, lastEnded>>

NextLimiterFair ==
    \/ \E c \in Callers : Acquire(c)
    \/ \E c \in Callers : TryAcquire(c)
    \/ \E c \in Callers : EnterLock(c)
    \/ \E c \in Callers : WakeUp(c)
    \/ Reset
    \/ TimeAdvances

\* The event loop runs every task that is ready (the one handed the lock,
\* the one whose sleep is over) and time passes; nothing obliges a caller
\* to call acquire, try_acquire or reset.
SpecLimiterFair ==
    /\ InitLimiter
    /\ [][NextLimiterFair]_vars
    /\ \A c \in Callers : WF_vars(EnterLock(c))
    /\ \A c \in Callers : WF_vars(WakeUp(c))
    /\ WF_vars(TimeAdvances)

\* C38: each get adds one to exactly one of _hits and _misses; set,
\* delete, exists, clear and the passing of time change neither, so
\* hits + misses counts the gets made and neither counter decreases.  (In
\* a step that leaves the clock alone, lastOp' is the operation called.)
C38_CountersCountGets ==
    [][LET h == hits' - hits
           m == misses' - misses
       IN  IF now' = now /\ lastOp'.op = "get"
           THEN /\ h + m = 1
                /\ h \in { 0, 1 }
                /\ h = 1 <=> lastOp'.found
           ELSE h = 0 /\ m = 0]_vars

\* a miss and a hit have been counted, and a delete left both in place
C38_Witness ==
    /\ hits = 1
    /\ misses = 1
    /\ lastOp.op = "delete"
    /\ lastOp.found
    /\ cache = <<>>

----------------------------------------------------------------------------
(* Claims about RateLimiter (SpecLimiter).                                 *)

GrantsIn(from, to) ==
    Cardinality({ k \in 1..Len(grants) : from <= grants[k] /\ grants[k] <= to })

\* C15: in every window [t, t + per] at most rate + 1 calls are let through
\* (acquire returning, try_acquire returning true), reset not being used.
C15_AtMostRatePlusOnePerWindow ==
    ~ resetCalled => \A t \in 0..MaxClock : GrantsIn(t, t + per) <= rate + 1

\* C16: while an acquire is in progress (it holds the lock, asleep), no
\* other operation changes _allowance or _last_check.
C16_StateSerializedByLock ==
    [][\A c \in Callers :
         (lpc[c] = "sleeping" /\ lpc'[c] = "sleeping")
         => /\ allowance' = allowance
            /\ last_check' = last_check]_vars

\* C17: a try_acquire call never waits.
C17_TryAcquireNeverWaits == \A c \in Callers : lpc[c] # "wait_try_acquire"

\* C18: in a burst of try_acquire calls with no time passing, begun with
\* exactly N whole tokens, the first N calls return true and all later ones
\* false, and the calls returning false take nothing from the allowance.
C18_ExactlyNTryAcquiresSucceed ==
    burstTokens >= 0
    => /\ tryTrue = Min(burstTokens, tryTrue + tryFalse)
       /\ allowance = (burstTokens - tryTrue) * OneToken

C18_Witness ==
    /\ burstTokens = 2
    /\ tryTrue = 2
    /\ tryFalse = 1
    /\ allowance = 0
    /\ \A c \in Callers : lret[c] \in { "true", "false" }

\* C36: 0 <= allowance <= rate in every state, after any sequence of
\* acquire, try_acquire and reset calls and any elapsed times.
C36_AllowanceWithinBucket ==
    /\ 0 <= allowance
    /\ allowance <= rate * per

\* the bucket was drained, a full window passed, and the last call took
\* its token from the bucket filled up to rate again
C36_Witness ==
    /\ allowance = rate * per - per
    /\ Len(grants) = MaxCallers
    /\ \E k \in 1..Len(grants) : grants[k] >= per
    /\ ~ resetCalled

\* C33: is_available, which is try_acquire, returns true exactly when the
\* refilled allowance holds a whole token, and then takes that token; a
\* call returning false takes nothing.  Begun with one token and no time
\* passing, the first call returns true and the later ones false.
C33_IsAvailableConsumesToken ==
    /\ [][\A c \in Callers :
            ( lret[c] = "none" /\ lret'[c] \in { "true", "false" } )
            => LET available == Min(rate * per, allowance + (now - last_check) * rate)
               IN  /\ lret'[c] = "true" <=> available >= per
                   /\ lret'[c] = "true" => allowance' = available - per
                   /\ lret'[c] = "false" => allowance' = available]_vars
    /\ [](burstTokens = 1 => tryTrue = (IF tryTrue + tryFalse > 0 THEN 1 ELSE 0))

\* one token, no time passing: true, then false
C33_Witness ==
    /\ burstTokens = 1
    /\ tryTrue = 1
    /\ tryFalse = 1
    /\ allowance = 0
    /\ now = 0

InAcquire(c) == lpc[c] \in { "wait_acquire", "sleeping" }

\* C40: every call of acquire returns in the end, the event loop and the clock
\* going on: a caller queued on the lock or holding it asleep in line 32
\* is not left there, however many callers there are and whatever calls of
\* try_acquire and reset come in between.
C40_AcquireReturns ==
    \A c \in Callers : InAcquire(c) ~> (lret[c] = "returned")

\* Every caller has been let through, the last ones after a sleep that
\* ended past MaxClock and after waiting for the lock behind the sleeper.
C40_Witness ==
    /\ \A c \in Callers : lret[c] = "returned"
    /\ Len(grants) = MaxCallers
    /\ grants[1] < grants[2]
    /\ grants[MaxCallers] > MaxClock
    /\ limLock = 0 /\ lockQueue = <<>>

----------------------------------------------------------------------------
(* AsyncHTTPClient._request_with_retry (SpecHttp).                         *)

MinWaitSeconds == 2

MaxWaitSeconds == 10

Multiplier == 1

RetryableStatusCodes == { 429, 500, 502, 503, 504 }

RECURSIVE Pow2(_)
Pow2(n) == IF n = 0 THEN 1 ELSE 2 * Pow2(n - 1)

GetWaitTimeUncapped(k) == MinWaitSeconds * Pow2(k) * Multiplier

\* RetryConfig.get_wait_time
GetWaitTime(k) ==
    LET wait == MinWaitSeconds * Pow2(k) * Multiplier
    IN  IF wait < MaxWaitSeconds THEN wait ELSE MaxWaitSeconds

IsRetryableAnyError(status_code) == status_code >= 400

IsRetryableStatus(status_code) == status_code \in RetryableStatusCodes

\* What client.request ends with on attempt k: a response, or an exception.
Response(status_code, k) ==
    [kind |-> "response", status |-> status_code, exc |-> "none", attempt |-> k]

Exception(exc, k) == [kind |-> "raise", status |-> 0, exc |-> exc, attempt |-> k]

AttemptOutcomes(k) ==
    { Response(st, k) : st \in { 200, 400, 429, 503 } }
    \cup { Exception(e, k) : e \in { "TimeoutException", "NetworkError",
                                     "RemoteProtocolError" } }

\* except (httpx.TimeoutException, httpx.NetworkError)
CaughtForRetry(exc) == exc \in { "TimeoutException", "NetworkError" }

\* `if attempt < self.retry_config.max_retries`, lines 86 and 107
ShouldRetryAlways(k) == TRUE

ShouldRetryOneLess(k) == k < max_retries - 1

ShouldRetry(k) == k < max_retries

\* get() or post() is called: the loop is entered, the first attempt sent.
Request(m) ==
    /\ hpc = "idle"
    /\ method' = m
    /\ hpc' = "requesting"
    /\ attempt' = 0
    /\ last_exception' = NoOutcome
    /\ UNCHANGED <<max_retries, hresult, hlog, waits>>
    /\ UNCHANGED <<aggVars, decoVars, cacheOpVars, limVars, moreVars>>

\* `await client.request(...)` of the present attempt ends.
AttemptEnds(out) ==
    /\ hpc = "requesting"
    /\ hlog' = Append(hlog, out)
    /\ IF out.kind = "response"
       THEN /\ IF IsRetryableStatus(out.status) /\ ShouldRetry(attempt)
               THEN /\ waits' = Append(waits, GetWaitTime(attempt))
                    /\ hpc' = "sleeping"
                    /\ UNCHANGED hresult
               ELSE /\ hpc' = "returned"
                    /\ hresult' = out
                    /\ UNCHANGED waits
            /\ UNCHANGED last_exception
       ELSE IF CaughtForRetry(out.exc)
       THEN /\ last_exception' = out
            /\ IF ShouldRetry(attempt)
               THEN /\ waits' = Append(waits, GetWaitTime(attempt))
                    /\ hpc' = "sleeping"
                    /\ UNCHANGED hresult
               ELSE /\ hpc' = "raised"
                    /\ hresult' = out
                    /\ UNCHANGED waits
       ELSE /\ hpc' = "raised"
            /\ hresult' = out
            /\ UNCHANGED <<waits, last_exception>>
    /\ UNCHANGED <<max_retries, method, attempt>>
    /\ UNCHANGED <<aggVars, decoVars, cacheOpVars, limVars, moreVars>>

\* The backoff sleep is over: the next iteration of the loop, or the end of
\* the loop (lines 130-132).
SleepEnds ==
    /\ hpc = "sleeping"
    /\ IF attempt + 1 <= max_retries
       THEN /\ attempt' = attempt + 1
            /\ hpc' = "requesting"
            /\ UNCHANGED hresult
       ELSE /\ hpc' = "raised"
            /\ hresult' = IF last_exception # NoOutcome THEN last_exception
                          ELSE Exception("RuntimeError", attempt)
            /\ UNCHANGED attempt
    /\ UNCHANGED <<max_retries, method, last_exception, hlog, waits>>
    /\ UNCHANGED <<aggVars, decoVars, cacheOpVars, limVars, moreVars>>

InitHttp ==
    /\ max_retries \in 0..MaxRetries
    /\ method = "none"
    /\ hpc = "idle"
    /\ attempt = 0
    /\ last_exception = NoOutcome
    /\ hresult = NoOutcome
    /\ hlog = <<>>
    /\ waits = <<>>
    /\ AggIdle
    /\ DecoIdle
    /\ CacheOpIdle
    /\ LimiterIdle
    /\ MoreIdle

NextHttp ==
    \/ \E m \in { "GET", "POST" } : Request(m)
    \/ \E out \in AttemptOutcomes(attempt) : AttemptEnds(out)
    \/ SleepEnds

SpecHttp == InitHttp /\ [][NextHttp]_vars

----------------------------------------------------------------------------
(* Claims about AsyncHTTPClient (SpecHttp).                                *)

Finished == hpc \in { "returned", "raised" }

\* An attempt that failed transiently: timeout, network error, or a response
\* with a retryable status code.
Transient(out) ==
    \/ out.kind = "raise" /\ out.exc \in { "TimeoutException", "NetworkError" }
    \/ out.kind = "response" /\ out.status \in { 429, 500, 502, 503, 504 }

\* C19: one get or post call makes at most max_retries + 1 attempts, and
\* every sleep is followed by a further attempt: a call asleep has attempts
\* left, and a finished call has slept once less than it has attempted.
C19_AtMostMaxRetriesPlusOneAttempts ==
    /\ Len(hlog) <= max_retries + 1
    /\ hpc = "requesting" => Len(hlog) = attempt /\ attempt <= max_retries
    /\ hpc = "sleeping" => Len(waits) = Len(hlog) /\ Len(hlog) <= max_retries
    /\ Finished => Len(waits) = Len(hlog) - 1

C19_Witness ==
    /\ Finished
    /\ max_retries = MaxRetries
    /\ Len(hlog) = max_retries + 1
    /\ Len(waits) = max_retries

\* C20: when the first r attempts fail transiently and attempt r + 1
\* succeeds (r <= max_retries), the call returns the response of attempt
\* r + 1 after exactly r + 1 attempts; the call does not end on a transient
\* failure while attempts are left.
C20_SuccessAfterTransientFailures ==
    Finished
    => LET n == Len(hlog) IN
       /\ (/\ \A k \in 1..(n - 1) : Transient(hlog[k])
           /\ hlog[n].kind = "response" /\ hlog[n].status = 200)
          => /\ hpc = "returned"
             /\ hresult = hlog[n]
             /\ hresult.attempt = n - 1
             /\ n <= max_retries + 1
       /\ (\A k \in 1..n : Transient(hlog[k])) => n = max_retries + 1

C20_Witness ==
    /\ hpc = "returned"
    /\ max_retries = MaxRetries
    /\ Len(hlog) = max_retries + 1
    /\ \A k \in 1..max_retries : Transient(hlog[k])
    /\ hlog[1].kind = "raise"
    /\ hlog[2].kind = "response"
    /\ hresult = Response(200, max_retries)

\* A response outside the retryable set, or an exception other than a
\* timeout or a network error.
NonRetryable(out) ==
    \/ out.kind = "response" /\ out.status \notin { 429, 500, 502, 503, 504 }
    \/ out.kind = "raise" /\ out.exc \notin { "TimeoutException", "NetworkError" }

\* C21: an attempt that ends with a non-retryable response or exception is
\* the call's last: the response is returned, the exception raised, from
\* that attempt, with no sleep after it; on the first attempt, no sleep at
\* all.
C21_NonRetryableEndsTheCall ==
    \A k \in 1..Len(hlog) :
       NonRetryable(hlog[k])
       => /\ k = Len(hlog)
          /\ hpc = (IF hlog[k].kind = "response" THEN "returned" ELSE "raised")
          /\ hresult = hlog[k]
          /\ Len(waits) = k - 1

C21_Witness ==
    /\ max_retries = MaxRetries
    /\ hlog = << Response(400, 0) >>
    /\ hpc = "returned"
    /\ hresult = Response(400, 0)
    /\ waits = <<>>

\* C22: the k-th sleep of a request (after zero-based attempt k - 1) lasts
\* min(max_wait, min_wait * 2^(k-1) * multiplier); the sleeps never get
\* shorter and never exceed max_wait.
C22_BackoffIsCappedExponential ==
    \A k \in 1..Len(waits) :
       /\ waits[k] = Min(MaxWaitSeconds, MinWaitSeconds * 2^(k - 1) * Multiplier)
       /\ waits[k] <= MaxWaitSeconds
       /\ k > 1 => waits[k - 1] <= waits[k]

\* the fourth sleep is the first one cut to max_wait
C22_Witness ==
    /\ Len(waits) = 4
    /\ waits[3] < MaxWaitSeconds
    /\ waits[4] = MaxWaitSeconds
    /\ MinWaitSeconds * 2^3 * Multiplier > MaxWaitSeconds

\* C37: when all max_retries + 1 attempts failed transiently, the call
\* ends with what the last attempt ended with: its exception is raised if
\* it was a timeout or network error, its response is returned if it had a
\* retryable status code.
C37_ExhaustedRetriesEndWithLastAttempt ==
    ( /\ Finished
      /\ Len(hlog) = max_retries + 1
      /\ \A k \in 1..Len(hlog) : Transient(hlog[k]) )
    => LET last == hlog[Len(hlog)] IN
       /\ hresult = last
       /\ last.kind = "raise" => hpc = "raised"
       /\ last.kind = "response" => hpc = "returned"
       /\ Len(waits) = max_retries

\* every attempt failed, an earlier one with a timeout, the last one with
\* 503: the 503 response is returned
C37_Witness ==
    /\ hpc = "returned"
    /\ max_retries = 2
    /\ Len(hlog) = 3
    /\ hlog[1].exc = "TimeoutException"
    /\ hlog[2].status = 429
    /\ hresult = Response(503, 2)
    /\ last_exception = Exception("TimeoutException", 0)

----------------------------------------------------------------------------
(* Claims about BaseFlightProvider.search (SpecAgg).                       *)

\* C34: a flight is dropped by deduplication only on account of a kept
\* flight that shares its signature: every flight of the merged list that
\* is missing from the output has a kept duplicate earlier in the list
\* with the same signature.
C34_DroppedOnlyForSameSignature ==
    (aggPc = "done" /\ aggResult.kind = "Ok") =>
        \A b \in 1..Len(Merged) :
           Merged[b] \notin Range(aggResult.value) =>
              \E a \in 1..(b - 1) :
                 /\ Merged[a] \in Range(aggResult.value)
                 /\ GenerateSignature(Merged[a]) = GenerateSignature(Merged[b])
                 /\ DuplicateOf(Merged[b], Merged[a])

C23_SearchNeverRaises ==
    \A i \in ProviderIdx :
       taskOut[i].kind = "Raised" => taskOut[i].error = "CancelledError"

----------------------------------------------------------------------------
(* The two-phase provider: SkyscannerProvider.search, that is              *)
(* BaseFlightProvider.search around create_session and poll_results.       *)
(* RapidAPISkyscannerClient.poll_results has the same loop.                *)

MAX_POLL_ATTEMPTS == 10
POLL_INTERVAL_SECONDS == 2

STATUS_COMPLETE == "RESULT_STATUS_COMPLETE"
STATUS_IN_PROGRESS == "RESULT_STATUS_IN_PROGRESS"
STATUS_FAILED == "RESULT_STATUS_FAILED"
\* data.get("status", "") of a body that has no status field
STATUS_ABSENT == ""

\* the provider of this section, as an index into AllProviders
Skyscanner == 1

\* What one GET of the poll endpoint ends with: a 2xx response whose body
\* has a status and, once complete, the itineraries; or an exception, from
\* the client or from raise_for_status.
PollResponse(poll_status, flights) ==
    [kind |-> "response", poll_status |-> poll_status, flights |-> flights,
     exc |-> "none", status_code |-> 200]

PollRaise(exc, status_code) ==
    [kind |-> "raise", poll_status |-> "none", flights |-> <<>>,
     exc |-> exc, status_code |-> status_code]

HttpFailures == { PollRaise("HTTPStatusError", 500), PollRaise("TimeoutException", 0) }

PollOutcomes ==
    { PollResponse(STATUS_COMPLETE, l) : l \in FlightLists(Skyscanner) }
      \cup { PollResponse(st, <<>>) :
                st \in { STATUS_IN_PROGRESS, STATUS_FAILED, STATUS_ABSENT } }
      \cup HttpFailures

SleepsBeforeEvery(k) == TRUE

\* line 67: `if attempt > 0` guards the sleep
SleepsBefore(k) == k > 0

\* line 86: the statuses after which the loop goes on
PollGoesOn(poll_status) == poll_status \in { STATUS_IN_PROGRESS, STATUS_ABSENT }

\* BaseFlightProvider.search ends: with the flights, or with the exception
\* that left _perform_search, which `except Exception` hands to _map_error.
SearchEnds(result) ==
    /\ ppc' = "done"
    /\ pollResult' = result
    /\ pSearch' = IF result.kind = "response"
                  THEN BaseSearch(Skyscanner, Return(result.flights))
                  ELSE BaseSearch(Skyscanner,
                                  Raise(result.exc, result.status_code, "none"))

\* The loop of poll_results enters iteration k.
EnterIteration(k) ==
    /\ pollAttempt' = k
    /\ IF SleepsBefore(k)
       THEN /\ ppc' = "sleeping"
            /\ pollSleeps' = Append(pollSleeps, POLL_INTERVAL_SECONDS)
       ELSE ppc' = "requesting" /\ UNCHANGED pollSleeps

\* search is called; the rate limiter lets it pass and create_session's
\* POST ends, with a session or with an exception.
CreateSession(out) ==
    /\ ppc = "idle"
    /\ IF out.kind = "raise"
       THEN SearchEnds(out) /\ UNCHANGED <<pollAttempt, pollSleeps>>
       ELSE EnterIteration(0) /\ UNCHANGED <<pollResult, pSearch>>
    /\ UNCHANGED <<pollLog, aggVars, decoVars, cacheOpVars, limVars, httpVars,
                   flightVars, provVars, ucVars, regVars>>

\* line 68: the sleep between two polls is over.
PollSleepEnds ==
    /\ ppc = "sleeping"
    /\ ppc' = "requesting"
    /\ UNCHANGED <<pollAttempt, pollLog, pollSleeps, pollResult, pSearch, aggVars,
                   decoVars, cacheOpVars, limVars, httpVars, flightVars, provVars, ucVars,
                   regVars>>

\* lines 76-91: the GET of this iteration ends, and the loop returns, raises
\* or goes round.
PollGetEnds(out) ==
    /\ ppc = "requesting"
    /\ pollLog' = Append(pollLog, out)
    /\ IF out.kind = "raise"
       THEN SearchEnds(out) /\ UNCHANGED <<pollAttempt, pollSleeps>>
       ELSE IF out.poll_status = STATUS_COMPLETE
       THEN SearchEnds(out) /\ UNCHANGED <<pollAttempt, pollSleeps>>
       ELSE IF ~ PollGoesOn(out.poll_status)
       THEN SearchEnds(PollRaise("ValueError", 0))
            /\ UNCHANGED <<pollAttempt, pollSleeps>>
       ELSE IF pollAttempt + 1 < MAX_POLL_ATTEMPTS
       THEN EnterIteration(pollAttempt + 1) /\ UNCHANGED <<pollResult, pSearch>>
       ELSE SearchEnds(PollRaise("TimeoutError", 0))
            /\ UNCHANGED <<pollAttempt, pollSleeps>>
    /\ UNCHANGED <<aggVars, decoVars, cacheOpVars, limVars, httpVars, flightVars, provVars,
                   ucVars, regVars>>

InitPoll ==
    /\ PollIdle
    /\ AggIdle
    /\ DecoIdle
    /\ CacheOpIdle
    /\ LimiterIdle
    /\ HttpIdle
    /\ ProviderIdle
    /\ UseCaseIdle
    /\ RegistryIdle
    /\ FlightIdle

NextPoll ==
    \/ \E out \in { PollResponse(STATUS_IN_PROGRESS, <<>>) } \cup HttpFailures :
          CreateSession(out)
    \/ PollSleepEnds
    \/ \E out \in PollOutcomes : PollGetEnds(out)

SpecPoll == InitPoll /\ [][NextPoll]_vars

\* Every await of the search ends: the HTTP client's calls are bounded by
\* its timeouts and its retry cap, and asyncio.sleep returns.
SpecPollFair == SpecPoll /\ WF_vars(NextPoll)

----------------------------------------------------------------------------
(* Claims about the two-phase poll (SpecPoll, SpecPollFair).               *)

PollTimedOut ==
    /\ ppc = "done"
    /\ Len(pollLog) = MAX_POLL_ATTEMPTS
    /\ \A k \in 1..Len(pollLog) :
          pollLog[k].kind = "response" /\ PollGoesOn(pollLog[k].poll_status)

\* C24: when MAX_POLL_ATTEMPTS polls have not seen COMPLETE, the search
\* returns Err with the TimeoutError variant of ProviderError, code
\* TIMEOUT_ERROR.
C24_PollTimeoutIsTimeoutError ==
    PollTimedOut =>
        /\ pSearch.kind = "Err"
        /\ pSearch.error.code = "TIMEOUT_ERROR"

\* C25: a poll response whose status is neither COMPLETE nor IN_PROGRESS is
\* the last poll sent, and the search returns Err with a ProviderError.
C25_UnknownStatusAborts ==
    \A k \in 1..Len(pollLog) :
       ( /\ pollLog[k].kind = "response"
         /\ pollLog[k].poll_status \notin { STATUS_COMPLETE, STATUS_IN_PROGRESS } )
       => /\ k = Len(pollLog)
          /\ ppc = "done"
          /\ pollResult.kind = "raise"
          /\ pSearch.kind = "Err"

GetsSent == Len(pollLog) + (IF ppc = "requesting" THEN 1 ELSE 0)

C26_Safety ==
    /\ GetsSent <= MAX_POLL_ATTEMPTS
    /\ \A k \in 1..Len(pollSleeps) : pollSleeps[k] = POLL_INTERVAL_SECONDS
    /\ ppc = "sleeping" => Len(pollSleeps) = GetsSent /\ GetsSent < MAX_POLL_ATTEMPTS
    /\ ppc \in { "requesting", "done" } /\ GetsSent > 0
       => Len(pollSleeps) = GetsSent - 1
    /\ GetsSent = 0 => pollSleeps = <<>>
    /\ \A k \in 1..Len(pollLog) :
          ( pollLog[k].kind = "response" /\ pollLog[k].poll_status = STATUS_COMPLETE )
          => /\ k = Len(pollLog)
             /\ ppc = "done"
             /\ pollResult = pollLog[k]
    /\ ppc = "done" => pollResult.kind \in { "response", "raise" }
    /\ ( ppc = "done" /\ pollResult.kind = "response" )
       => pollResult.poll_status = STATUS_COMPLETE

\* C26: a poll sends at most MAX_POLL_ATTEMPTS GETs, sleeps before every
\* attempt but the first, returns the first COMPLETE response without
\* polling again, and always ends, with that response or with an error.
C26_PollBoundedAndTerminates ==
    /\ []C26_Safety
    /\ (ppc # "idle") ~> (ppc = "done")

\* COMPLETE on the third poll, after two sleeps
C26_Witness ==
    /\ ppc = "done"
    /\ Len(pollLog) = 3
    /\ Len(pollSleeps) = 2
    /\ pollResult.kind = "response"
    /\ pollResult.poll_status = STATUS_COMPLETE
    /\ pSearch.kind = "Ok"

----------------------------------------------------------------------------
(* Concurrent searches on one provider: BaseFlightProvider.search awaits   *)
(* its rate limiter's acquire() and then _perform_search.  Caller c is a   *)
(* search; its acquire is the limiter's Acquire(c).                        *)

PerformingUnpaced(c) == lpc[c] # "idle" /\ c \notin searchEnded

\* line 52: acquire has returned, which released the limiter's lock, and
\* _perform_search has not ended yet.
Performing(c) == lpc[c] = "done" /\ lret[c] = "returned" /\ c \notin searchEnded

\* _perform_search of search c ends, and with it the search.
PerformSearchEnds(c) ==
    /\ Performing(c)
    /\ searchEnded' = searchEnded \cup { c }
    /\ UNCHANGED <<aggVars, decoVars, cacheOpVars, limVars, httpVars, flightVars, pollVars,
                   ucVars, regVars>>

\* The task running search c is cancelled while search is suspended in
\* acquire: CancelledError is raised at the await, `async with` releases
\* the lock if c has it, and `except Exception` does not catch the error,
\* so search raises it.  A waiter leaves the lock's queue; one that was
\* already handed the lock passes it on.
CancelSearch(c) ==
    /\ lpc[c] \in { "wait_acquire", "sleeping" }
    /\ lpc' = [lpc EXCEPT ![c] = "done"]
    /\ lret' = [lret EXCEPT ![c] = "cancelled"]
    /\ IF limLock = c
       THEN limLock' = Release /\ lockQueue' = QueueAfterRelease
       ELSE /\ lockQueue' = SelectSeq(lockQueue, LAMBDA x : x # c)
            /\ UNCHANGED limLock
    /\ UNCHANGED <<rate, per, allowance, last_check, wakeAt, grants, resetCalled,
                   tryTrue, tryFalse, burstTokens, searchEnded>>
    /\ UNCHANGED <<aggVars, decoVars, cacheOpVars, httpVars, flightVars, pollVars,
                   ucVars, regVars>>

InitProvider == InitLimiter

NextProvider ==
    \/ \E c \in Callers : Acquire(c)
    \/ \E c \in Callers : EnterLock(c)
    \/ \E c \in Callers : WakeUp(c)
    \/ \E c \in Callers : CancelSearch(c)
    \/ \E c \in Callers : PerformSearchEnds(c)
    \/ ClockTick

SpecProvider == InitProvider /\ [][NextProvider]_vars

\* C32: a search is in _perform_search, or past it, only after its acquire
\* has returned; each search whose acquire returned was granted one token
\* and no other grant was made; a search whose acquire raised never enters
\* _perform_search.
C32_AcquireBeforePerformSearch ==
    /\ \A c \in Callers :
          ( Performing(c) \/ c \in searchEnded )
          => lpc[c] = "done" /\ lret[c] = "returned"
    /\ Len(grants) = Cardinality({ c \in Callers : lret[c] = "returned" })
    /\ \A c \in Callers :
          lret[c] = "cancelled" => ~ Performing(c) /\ c \notin searchEnded

\* one search slept for its token and finished, another was cancelled
\* while it waited
C32_Witness ==
    /\ \E c \in Callers : c \in searchEnded /\ allowance = 0
    /\ \E c \in Callers : lret[c] = "cancelled"
    /\ Len(grants) >= 2

\* C27: at most one _perform_search of a provider is in progress at any
\* time, however many searches are issued on it concurrently.
C27_OnePerformSearchAtATime ==
    Cardinality({ c \in Callers : Performing(c) }) <= 1

----------------------------------------------------------------------------
(* SearchFlightsUseCase.execute over the aggregator.                       *)

\* Settings.max_search_results has ge=10
MinSearchResults == 10

\* two prices, in cents
TwoPrices == <<29900, 39900>>
LowPrice == TwoPrices[1]
HighPrice == TwoPrices[2]

\* A price-sorted result as the aggregator returns it: a flights at the
\* lower price, then b at the higher one.
SortedFlights(a, b) ==
    [k \in 1..(a + b) |->
        [id |-> k, price |-> IF k <= a THEN LowPrice ELSE HighPrice]]

\* What self._provider.search can return to the use case.
ProviderResults ==
    { Ok(SortedFlights(ab[1], ab[2])) :
         ab \in { x \in (0..MaxFlights) \X (0..MaxFlights) : x[1] + x[2] <= MaxFlights } }
      \cup { Err(ProviderErr("PROVIDER_ERROR", "aggregator", "All providers failed",
                             <<"skyscanner">>)) }

\* MultiProviderAggregator.provider_name
AggregatorName == "aggregator"

\* MultiProviderAggregator.get_provider_names
GetProviderNames == ucProviders

ApplyLimitsNone(flights, max_results) == flights

\* _apply_limits
ApplyLimits(flights, max_results) ==
    IF Len(flights) <= max_results THEN flights ELSE Prefix(flights, max_results)

\* _get_provider_names: the name of the one provider the use case holds
UseCaseProviderNames == <<AggregatorName>>

FlightSearchResult(flights) ==
    [flights |-> flights, total_results |-> Len(flights),
     providers_used |-> UseCaseProviderNames, cache_hit |-> FALSE]

SearchError(error) ==
    [code |-> "SEARCH_ERROR", message |-> "Flight search failed: " \o error.message,
     providers_failed |-> <<error.provider>>, original |-> error]

\* execute: the provider's search returns res and the match statement
\* builds the use case's result.
Execute(res) ==
    /\ ucResult = NoResult
    /\ ucProviderResult' = res
    /\ ucResult' = IF res.kind = "Ok"
                   THEN Ok(FlightSearchResult(ApplyLimits(res.value, max_search_results)))
                   ELSE Err(SearchError(res.error))
    /\ UNCHANGED <<max_search_results, ucProviders, aggVars, decoVars, cacheOpVars,
                   limVars, httpVars, flightVars, pollVars, provVars, regVars>>

InitUseCase ==
    /\ max_search_results \in MinSearchResults..MaxResultsCap
    /\ ucProviders \in { Prefix(AllProviders, n) : n \in 1..Len(AllProviders) }
    /\ ucProviderResult = NoResult
    /\ ucResult = NoResult
    /\ AggIdle
    /\ DecoIdle
    /\ CacheOpIdle
    /\ LimiterIdle
    /\ HttpIdle
    /\ PollIdle
    /\ ProviderIdle
    /\ RegistryIdle
    /\ FlightIdle

NextUseCase == \E res \in ProviderResults : Execute(res)

SpecUseCase == InitUseCase /\ [][NextUseCase]_vars

----------------------------------------------------------------------------
(* Claims about SearchFlightsUseCase (SpecUseCase).                        *)

\* C28: execute returns the first max_search_results flights of the
\* provider's result in their order, at most max_search_results of them; no
\* flight left out is cheaper than one returned; total_results is the
\* number of flights returned.
C28_ReturnsCheapestPrefix ==
    ucResult.kind = "Ok" =>
        LET given == ucProviderResult.value
            out == ucResult.value.flights
        IN  /\ Len(out) <= max_search_results
            /\ Len(out) = Min(Len(given), max_search_results)
            /\ \A k \in 1..Len(out) : out[k] = given[k]
            /\ \A k \in (Len(out) + 1)..Len(given) :
                  \A j \in 1..Len(out) : out[j].price <= given[k].price
            /\ ucResult.value.total_results = Len(out)

\* more flights than the limit, and the cut falls among the dearer ones
C28_Witness ==
    /\ ucResult.kind = "Ok"
    /\ Len(ucProviderResult.value) > max_search_results
    /\ Len(ucResult.value.flights) = max_search_results
    /\ ucResult.value.flights[1].price = LowPrice
    /\ ucResult.value.flights[max_search_results].price = HighPrice

\* C29: on a successful search through the aggregator, providers_used
\* lists the name of every provider the aggregator attempted.
C29_ProvidersUsedListsAttempted ==
    ucResult.kind = "Ok" => ucResult.value.providers_used = GetProviderNames

----------------------------------------------------------------------------
(* ProviderRegistry.                                                       *)

\* Provider objects: two distinct objects answer to each name.
RegistryProviders ==
    { [object |-> o, provider_name |-> n] :
         o \in { "first", "second" }, n \in { "skyscanner", "kiwi" } }

RegistryNames == { p.provider_name : p \in RegistryProviders } \cup { "google_flights" }

\* the arguments register is called with, after the provider
Priorities == { 0, 90 }
Weights == { 1, 2 }

ProviderMetadata(provider, priority, enabled, weight) ==
    [name |-> provider.provider_name, provider |-> provider, priority |-> priority,
     enabled |-> enabled, weight |-> weight]

RegisteredNames(reg) == { reg[k].name : k \in 1..Len(reg) }

\* self._providers[name] = ..., whether or not the name is present: a dict
\* keeps the position of a key that is assigned again
AfterRegisterLastWins(reg, meta) ==
    IF meta.name \in RegisteredNames(reg)
    THEN [k \in 1..Len(reg) |-> IF reg[k].name = meta.name THEN meta ELSE reg[k]]
    ELSE Append(reg, meta)

\* lines 41-50 of register
AfterRegister(reg, meta) ==
    IF meta.name \in RegisteredNames(reg) THEN reg ELSE Append(reg, meta)

\* enable and disable
AfterSetEnabled(reg, name, flag) ==
    [k \in 1..Len(reg) |->
        IF reg[k].name = name THEN [reg[k] EXCEPT !.enabled = flag] ELSE reg[k]]

Register(provider, priority, enabled, weight) ==
    LET meta == ProviderMetadata(provider, priority, enabled, weight) IN
    /\ registry' = AfterRegister(registry, meta)
    /\ lastCall' = [op |-> "register", name |-> meta.name,
                    duplicate |-> meta.name \in RegisteredNames(registry)]
    /\ UNCHANGED <<aggVars, decoVars, cacheOpVars, limVars, httpVars, flightVars, pollVars,
                   provVars, ucVars>>

Enable(name) ==
    /\ registry' = AfterSetEnabled(registry, name, TRUE)
    /\ lastCall' = [op |-> "enable", name |-> name, duplicate |-> FALSE]
    /\ UNCHANGED <<aggVars, decoVars, cacheOpVars, limVars, httpVars, flightVars, pollVars,
                   provVars, ucVars>>

Disable(name) ==
    /\ registry' = AfterSetEnabled(registry, name, FALSE)
    /\ lastCall' = [op |-> "disable", name |-> name, duplicate |-> FALSE]
    /\ UNCHANGED <<aggVars, decoVars, cacheOpVars, limVars, httpVars, flightVars, pollVars,
                   provVars, ucVars>>

InitRegistry ==
    /\ RegistryIdle
    /\ AggIdle
    /\ DecoIdle
    /\ CacheOpIdle
    /\ LimiterIdle
    /\ HttpIdle
    /\ PollIdle
    /\ ProviderIdle
    /\ UseCaseIdle
    /\ FlightIdle

NextRegistry ==
    \/ \E provider \in RegistryProviders, priority \in Priorities,
          enabled \in BOOLEAN, weight \in Weights :
          Register(provider, priority, enabled, weight)
    \/ \E name \in RegistryNames : Enable(name)
    \/ \E name \in RegistryNames : Disable(name)

SpecRegistry == InitRegistry /\ [][NextRegistry]_vars

----------------------------------------------------------------------------
(* Claims about ProviderRegistry (SpecRegistry).                           *)

\* C30: a register call under a name that is already present leaves the
\* registry as it was: the same names, and for each name the same provider
\* object, priority, enabled flag and weight.
C30_RegisterIsFirstWins ==
    [][ ( lastCall'.op = "register" /\ lastCall'.name \in RegisteredNames(registry) )
        => registry' = registry ]_vars

\* with two names registered, register was called again under a name that
\* was present, and the entry still holds the object registered first
C30_Witness ==
    /\ lastCall.op = "register"
    /\ lastCall.duplicate
    /\ \E k \in 1..Len(registry) :
          /\ registry[k].name = lastCall.name
          /\ registry[k].provider.object = "first"
    /\ Len(registry) = 2

----------------------------------------------------------------------------
(* The Flight entity: the validator of arrival_time, which pydantic runs   *)
(* when a Flight is constructed.  Times in this section are seconds.       *)

\* line 61: the sanity limit, in hours
MaxDurationHours == 24

\* departure and arrival times to construct flights from: half-minute
\* steps from the departure up, and around a day later
DepartureTimes == { 30 * n : n \in 0..MaxDeparture }

ArrivalTimes ==
    { 30 * n : n \in 0..(MaxDeparture + 1) }
      \cup { MaxDurationHours * 3600 + 30 * n : n \in (0 - 2)..(MaxDeparture + 2) }

\* lines 60-61: duration_hours = total_seconds / 3600 > 24
DurationTooLong(arrival, departure) ==
    arrival - departure > MaxDurationHours * 3600

\* validate_arrival_after_departure: TRUE when it raises ValueError
ArrivalRejected(arrival, departure) ==
    \/ arrival <= departure
    \/ DurationTooLong(arrival, departure)

\* the property duration_minutes: int(total_seconds / 60)
DurationMinutes(f) == (f.arrival_time - f.departure_time) \div 60

\* Flight(..., departure_time, arrival_time, ...): the other fields are valid
ConstructFlight(departure, arrival) ==
    /\ newFlight' = [kind |-> IF ArrivalRejected(arrival, departure)
                              THEN "ValueError" ELSE "flight",
                     departure_time |-> departure, arrival_time |-> arrival]
    /\ UNCHANGED <<aggVars, decoVars, cacheOpVars, limVars, httpVars, pollVars,
                   provVars, ucVars, regVars>>

InitFlight ==
    /\ FlightIdle
    /\ AggIdle
    /\ DecoIdle
    /\ CacheOpIdle
    /\ LimiterIdle
    /\ HttpIdle
    /\ PollIdle
    /\ ProviderIdle
    /\ UseCaseIdle
    /\ RegistryIdle

NextFlight ==
    \E departure \in DepartureTimes, arrival \in ArrivalTimes :
       ConstructFlight(departure, arrival)

SpecFlight == InitFlight /\ [][NextFlight]_vars

----------------------------------------------------------------------------
(* Claims about Flight (SpecFlight).                                       *)

\* C31: every constructed Flight arrives after it departs and has
\* duration_minutes < 1440.
C31_FlightShorterThanADay ==
    newFlight.kind = "flight" =>
        /\ newFlight.arrival_time > newFlight.departure_time
        /\ DurationMinutes(newFlight) < 24 * 60

====
